---- MODULE Spec2Model ----
(***************************************************************************)
(* Verification model of streamlit_app.py: the scan orchestrator           *)
(* (run_scan and its per-symbol workers), the retrying fetch behind the    *)
(* admission semaphore, the four-stage pipeline, and the part of main()    *)
(* that starts a scan and stores its outcome in the Streamlit session.     *)
(*                                                                         *)
(* Concurrency is asyncio's: one thread, tasks switch only at an await.    *)
(* Every action below is one uninterrupted stretch of code between two     *)
(* awaits.  Time is in milliseconds.  An exchange call takes no time; the  *)
(* clock advances only while some fetch sits in its backoff sleep.         *)
(*                                                                         *)
(* Candle series are abstracted to what the stages read from them: the     *)
(* row count, the four pivots, the anchor time, and the outputs of the     *)
(* numeric indicators (ADX window, TDI/Keltner verdicts, Bollinger         *)
(* emission times, final-signal times, structural events).                 *)
(***************************************************************************)
EXTENDS Integers, Sequences, FiniteSets, TLC

(***************************************************************************)
(* Bounds of the model.                                                    *)
(***************************************************************************)
\* Symbols in the exchange's market listing (Spec).
NumSymbols == 2
\* Events in the list given to validate_choch.
MaxEvents == 3
\* Bars of a generated candle series given to a detector.
MaxBars == 4
\* Exchange calls that may raise during one run of Spec.
ScanFailures == 1
\* Exchange calls that may raise during one run of SpecApp.
MaxFailures == 3
\* Scans started in one session (SpecApp).
MaxRuns == 2
\* Size of the admission gate; 150 in the source, scaled to the model.
MAX_CONCURRENT == 2

(***************************************************************************)
(* Program constants.                                                      *)
(***************************************************************************)
RETRY_ATTEMPTS == 3
\* 0.5 s, in milliseconds
RETRY_BASE_DELAY == 500
\* 0.25 s, in milliseconds
UI_THROTTLE_S == 250
ADX_LEN == 14
ADX_TH == 25
BB_LEN == 20
BOS_LR == 10

HourMs == 3600 * 1000
\* time.time()*1000 when the session starts
StartClock == 200 * 1000 * 1000

Modes == {"5m", "15m"}

\* MODES[mode]: the timeframe of each pipeline role.
Cfg(mode) ==
    IF mode = "5m"
    THEN [pivot_tf |-> "4h", tdi_tf |-> "1h", mid_tf |-> "15m",
          sig_tf |-> "5m", choch_tf |-> "1m"]
    ELSE [pivot_tf |-> "1d", tdi_tf |-> "4h", mid_tf |-> "1h",
          sig_tf |-> "15m", choch_tf |-> "5m"]

(***************************************************************************)
(* Sequence helpers.                                                       *)
(***************************************************************************)
Last(q) == q[Len(q)]

Reverse(q) == [i \in 1..Len(q) |-> q[Len(q) + 1 - i]]

RECURSIVE Pow2(_)
Pow2(k) == IF k = 0 THEN 1 ELSE 2 * Pow2(k - 1)

(***************************************************************************)
(* Stage 1 on the pivot series.                                            *)
(***************************************************************************)
\* piv = <<ppp_P, pp_P, prev_P, cur_P>>, the HLC3 of rows -5 .. -2.
Max2(a, b) == IF a >= b THEN a ELSE b
Min2(a, b) == IF a <= b THEN a ELSE b

PivotPattern(piv) ==
    LET ppp == piv[1]  pp == piv[2]  prev == piv[3]  cur == piv[4] IN
    IF cur < prev /\ prev > Max2(pp, ppp) THEN "sell"
    ELSE IF cur > prev /\ prev < Min2(pp, ppp) THEN "buy"
    ELSE "none"

\* max_age of the pivot age gate.
MaxAge(mode) ==
    IF Cfg(mode).tdi_tf = "1h" THEN 8 * HourMs ELSE 48 * HourMs

\* Variant: the gate written with >= instead of >.
AgeGateDiscards_AtCeiling(clock, pivot_ts, mode) ==
    clock - pivot_ts >= MaxAge(mode)

\* int(time.time() * 1000) - pivot_ts > max_age
AgeGateDiscards(clock, pivot_ts, mode) ==
    clock - pivot_ts > MaxAge(mode)

\* The ADX filter on the momentum series (da non-empty, long enough).
AdxPasses(da) ==
    /\ Len(da.adxWin) > 0
    /\ (\E i \in 1..Len(da.adxWin) : da.adxWin[i] > ADX_TH)
    /\ Last(da.adxWin) > ADX_TH

(***************************************************************************)
(* Stage 2.                                                                *)
(***************************************************************************)
\* Variant: Stage 2 lets every Stage-1 candidate through.
stage2_worker_PassAll(want_sell, da) == TRUE

\* TDI direction and Keltner confirmation on the momentum series.
stage2_worker(want_sell, da) ==
    IF da.n = 0 \/ da.n < 60 THEN FALSE
    ELSE IF want_sell THEN da.tdi = "bear" /\ da.kcSell
    ELSE da.tdi = "bull" /\ da.kcBuy

(***************************************************************************)
(* Stage 4: BOS/ChoCh validation.                                          *)
(***************************************************************************)
\* Variant: an event at the signal's own time counts as before the signal.
validate_choch_Inclusive(events, signal_ts_ms, want_sell) ==
    LET before == SelectSeq(events, LAMBDA e : e[1] <= signal_ts_ms)
        after  == SelectSeq(events, LAMBDA e : e[1] > signal_ts_ms)
        choch  == IF want_sell THEN "bear_choch" ELSE "bull_choch"
        bos    == IF want_sell THEN "bull_bos" ELSE "bear_bos"
    IN  IF Len(before) > 0 /\ Last(before)[2] = choch THEN "valid"
        ELSE IF Len(after) > 0 /\ after[1][2] = choch THEN "valid"
        ELSE IF Len(after) > 0 /\ after[1][2] = bos THEN "invalid"
        ELSE "wait"

\* Variant: the first event after the signal is looked at first.
validate_choch_AfterFirst(events, signal_ts_ms, want_sell) ==
    LET before == SelectSeq(events, LAMBDA e : e[1] < signal_ts_ms)
        after  == SelectSeq(events, LAMBDA e : e[1] >= signal_ts_ms)
        choch  == IF want_sell THEN "bear_choch" ELSE "bull_choch"
        bos    == IF want_sell THEN "bull_bos" ELSE "bear_bos"
    IN  IF Len(after) > 0 /\ after[1][2] = choch THEN "valid"
        ELSE IF Len(after) > 0 /\ after[1][2] = bos THEN "invalid"
        ELSE IF Len(before) > 0 /\ Last(before)[2] = choch THEN "valid"
        ELSE "wait"

\* validate_choch: events is a list of <<ts, type>>.
validate_choch(events, signal_ts_ms, want_sell) ==
    LET before == SelectSeq(events, LAMBDA e : e[1] < signal_ts_ms)
        after  == SelectSeq(events, LAMBDA e : e[1] >= signal_ts_ms)
        choch  == IF want_sell THEN "bear_choch" ELSE "bull_choch"
        bos    == IF want_sell THEN "bull_bos" ELSE "bear_bos"
    IN  IF Len(before) > 0 /\ Last(before)[2] = choch THEN "valid"
        ELSE IF Len(after) > 0 /\ after[1][2] = choch THEN "valid"
        ELSE IF Len(after) > 0 /\ after[1][2] = bos THEN "invalid"
        ELSE "wait"

Rank(status) ==
    CASE status = "valid" -> 2 [] status = "wait" -> 1 [] status = "invalid" -> 0

\* Variant: the status of the timestamp evaluated last is kept, whatever
\* its rank.
RECURSIVE ChochLoop_LastWins(_, _, _, _)
ChochLoop_LastWins(events, sigs, want_sell, acc) ==
    IF sigs = <<>> \/ acc[2] = "valid" THEN acc
    ELSE LET r == validate_choch(events, sigs[1], want_sell)
         IN  ChochLoop_LastWins(events, Tail(sigs), want_sell, <<Rank(r), r>>)

\* The newest-to-oldest loop of stage3_worker over the signal timestamps:
\* acc = <<best_rank, choch_status>>; stops once the status is valid.
RECURSIVE ChochLoop(_, _, _, _)
ChochLoop(events, sigs, want_sell, acc) ==
    IF sigs = <<>> \/ acc[2] = "valid" THEN acc
    ELSE LET r == validate_choch(events, sigs[1], want_sell)
             a == IF Rank(r) > acc[1] THEN <<Rank(r), r>> ELSE acc
         IN  ChochLoop(events, Tail(sigs), want_sell, a)

\* Variant: the structural series is used whatever its length.
ChochStatus_AnyLength(dc, sig_ts_list, want_sell) ==
    IF dc.n # 0
    THEN ChochLoop(dc.events, Reverse(sig_ts_list), want_sell, <<-1, "wait">>)[2]
    ELSE "wait"

\* choch_status: "wait" unless the structural series is there and long
\* enough, then the best verdict over the signals, newest first.
ChochStatus(dc, sig_ts_list, want_sell) ==
    IF dc.n # 0 /\ dc.n >= BOS_LR * 2 + 5
    THEN ChochLoop(dc.events, Reverse(sig_ts_list), want_sell, <<-1, "wait">>)[2]
    ELSE "wait"

(***************************************************************************)
(* Stage 3 checks on fetched series.                                       *)
(***************************************************************************)
\* Variant: an emission at any time counts, the anchor is not looked at.
BbPasses_AnyTime(dm, want_sell, pivot_ts) ==
    (IF want_sell THEN dm.bbSell ELSE dm.bbBuy) # {}

\* bb_sig[win_mask].any(): a Bollinger-continuation emission of the
\* candidate's direction on a closed bar at or after the anchor.
BbPasses(dm, want_sell, pivot_ts) ==
    \E t \in (IF want_sell THEN dm.bbSell ELSE dm.bbBuy) : t >= pivot_ts

\* signals_tf in single-direction mode: the ascending emission times in the
\* window that starts at from_ts.
signals_tf(ds, from_ts, want_sell) ==
    IF ds.n < 60 THEN <<>>
    ELSE SelectSeq(IF want_sell THEN ds.sell ELSE ds.buy,
                   LAMBDA t : t >= from_ts)

(***************************************************************************)
(* What fetch and fetch_raw make of the exchange's response.               *)
(***************************************************************************)
\* pd.DataFrame() / None: the "no data" value.
NoData == [n |-> 0]

\* fetch: an empty response gives the empty frame, otherwise the rows.
FetchResult(raw) == IF raw.n = 0 THEN NoData ELSE raw

\* fetch_raw: an empty response or one of fewer than 5 rows gives None.
FetchRawResult(raw) == IF raw.n = 0 \/ raw.n < 5 THEN NoData ELSE raw

Convert(role, raw) ==
    IF role = "pivot" THEN FetchRawResult(raw) ELSE FetchResult(raw)

(***************************************************************************)
(* debug_single: the pipeline of one symbol replayed stage by stage, on    *)
(* the series the exchange serves.                                         *)
(***************************************************************************)
\* What arr[:, 0].astype(np.int64) makes of a NaN timestamp: the minimum
\* of the type or zero, as the platform has it.  The first is rendered by
\* a value below every timestamp.
NanCast == {0 - StartClock, 0}

\* int(dp.iloc[-2]["ts"]) on the frame fetch built from the pivot series.
DebugPivotTs(raw) == IF raw.n >= 5 /\ ~raw.tsOk THEN NanCast ELSE
                     IF raw.n >= 5 THEN {raw.ts} ELSE {0}

\* The log of debug_single reduced to its outcome: pass when no line of
\* the log is a FAIL or an INVALID, with the direction and the Stage-4
\* status reported.  d is the symbol's dataset, pivot_ts the anchor read.
debug_single(d, pivot_ts) ==
    LET dp        == FetchResult(d.pivot)
        da        == FetchResult(d.tdi)
        dm        == FetchResult(d.mid)
        ds        == FetchResult(d.sig)
        dc        == FetchResult(d.choch)
        fail      == [pass |-> FALSE, direction |-> "none", status |-> "none"]
        pattern   == PivotPattern(dp.piv)
        want_sell == pattern = "sell"
        direction == IF want_sell THEN "SELL" ELSE "BUY"
        stage2_ok == IF want_sell THEN da.tdi = "bear" /\ da.kcSell
                     ELSE da.tdi = "bull" /\ da.kcBuy
        sig_ts_list  == signals_tf(ds, pivot_ts, want_sell)
        choch_status == ChochStatus(dc, sig_ts_list, want_sell)
    IN  IF dp.n = 0 \/ dp.n < 5 THEN fail
        ELSE IF da.n = 0 \/ da.n < ADX_LEN * 2 THEN fail
        ELSE IF pattern = "none" THEN fail
        ELSE IF ~AdxPasses(da) THEN fail
        ELSE IF ~stage2_ok THEN fail
        ELSE IF dm.n = 0 \/ dm.n < BB_LEN + 10 THEN fail
        ELSE IF ~BbPasses(dm, want_sell, pivot_ts) THEN fail
        ELSE IF ds.n = 0 \/ ds.n < 80 THEN fail
        ELSE IF sig_ts_list = <<>> THEN fail
        ELSE [pass |-> choch_status # "invalid", direction |-> direction,
              status |-> choch_status]

(***************************************************************************)
(* The exchange's dataset: one profile per symbol, five series each.       *)
(***************************************************************************)
Roles == {"pivot", "tdi", "mid", "sig", "choch"}

\* A candidate of direction dir whose anchor is `age` ms old when the
\* session starts and which passes every stage; st4 chooses the structural
\* events: "valid", "wait" or "invalid" for every signal.
Profile(dir, age, st4) ==
    LET a    == StartClock - age
        sell == dir = "sell"
        ch   == IF sell THEN "bear_choch" ELSE "bull_choch"
        bos  == IF sell THEN "bull_bos" ELSE "bear_bos"
    IN  [pivot |-> [n |-> 7, tsOk |-> TRUE, ts |-> a,
                    piv |-> IF sell THEN <<1, 1, 3, 2>> ELSE <<3, 3, 1, 2>>],
         tdi   |-> [n |-> 80, adxWin |-> <<30, 26>>,
                    tdi |-> IF sell THEN "bear" ELSE "bull",
                    kcSell |-> sell, kcBuy |-> ~sell],
         mid   |-> [n |-> 60, bbSell |-> IF sell THEN {a + 10} ELSE {},
                    bbBuy |-> IF sell THEN {} ELSE {a + 10}],
         sig   |-> [n |-> 156, sell |-> IF sell THEN <<a + 20, a + 40>> ELSE <<>>,
                    buy |-> IF sell THEN <<>> ELSE <<a + 20, a + 40>>],
         choch |-> [n |-> 550,
                    events |-> CASE st4 = "valid"   -> << <<a + 30, ch>> >>
                                 [] st4 = "wait"    -> << <<a + 5, bos>> >>
                                 [] st4 = "invalid" -> << <<a + 50, bos>> >>]]

Young == HourMs

\* The profiles of the concurrent scan.
ScanProfileSeq ==
    << Profile("sell", Young, "valid"),
       Profile("sell", 2 * Young, "valid"),
       Profile("buy", Young, "wait"),
       [Profile("sell", Young, "valid") EXCEPT !.tdi.tdi = "bull"],
       [Profile("buy", Young, "valid") EXCEPT !.pivot.tsOk = FALSE] >>

ScanProfiles == {ScanProfileSeq[i] : i \in 1..Len(ScanProfileSeq)}

\* The datasets of the concurrent scan: the profiles dealt to the symbols
\* in turn, from every starting point.
ScanDatasets(syms) ==
    { [s \in syms |-> ScanProfileSeq[((s + i) % Len(ScanProfileSeq)) + 1]] :
        i \in 1..Len(ScanProfileSeq) }

\* The profiles of the single-symbol session: every discard of every stage.
AllProfiles ==
    ScanProfiles \cup
    { Profile("sell", Young, "wait"),
      Profile("sell", Young, "invalid"),
      Profile("buy", Young, "invalid"),
      [Profile("sell", Young, "valid") EXCEPT !.pivot = [n |-> 0]],
      [Profile("sell", Young, "valid") EXCEPT !.pivot.n = 4],
      [Profile("sell", Young, "valid") EXCEPT !.pivot.n = 5],
      [Profile("sell", Young, "valid") EXCEPT !.pivot.piv = <<1, 2, 3, 4>>],
      Profile("sell", 8 * HourMs, "valid"),
      Profile("sell", 8 * HourMs + 1, "valid"),
      Profile("buy", 8 * HourMs - RETRY_BASE_DELAY, "wait"),
      Profile("buy", 48 * HourMs, "valid"),
      Profile("buy", 48 * HourMs + 1, "valid"),
      [Profile("sell", Young, "valid") EXCEPT !.tdi = [n |-> 0]],
      [Profile("sell", Young, "valid") EXCEPT !.tdi.n = 27],
      [Profile("sell", Young, "valid") EXCEPT !.tdi.n = 59],
      [Profile("sell", Young, "valid") EXCEPT !.tdi.adxWin = <<30, 25>>],
      [Profile("sell", Young, "valid") EXCEPT !.tdi.adxWin = <<>>],
      [Profile("buy", Young, "valid") EXCEPT !.tdi.kcBuy = FALSE],
      [Profile("sell", Young, "valid") EXCEPT !.mid = [n |-> 0]],
      [Profile("sell", Young, "valid") EXCEPT !.mid.n = 29],
      [Profile("sell", Young, "valid") EXCEPT
          !.mid.bbSell = {StartClock - Young - 10}],
      [Profile("sell", Young, "valid") EXCEPT !.sig = [n |-> 0]],
      [Profile("sell", Young, "valid") EXCEPT !.sig.n = 79],
      [Profile("sell", Young, "valid") EXCEPT
          !.sig.sell = <<StartClock - Young - 20>>],
      [Profile("sell", Young, "invalid") EXCEPT !.choch = [n |-> 0]],
      [Profile("buy", Young, "invalid") EXCEPT !.choch.n = 24] }

(***************************************************************************)
(* State.                                                                  *)
(***************************************************************************)
VARIABLES
    now,            \* the clock, time.time() in ms
    exMarkets,      \* the symbols the exchange lists
    data,           \* data[s][role]: the series the exchange serves
    failBudget,     \* exchange calls that may raise in one run
    clicksLeft,     \* scans the user may still start
    session,        \* st.session_state
    rpc,            \* main / run_scan: "idle", "load" or "gather"
    mode,           \* mode_key: the selection of the SCAN MODE radio
    t0,             \* main's t0 of the running scan
    symbols,        \* run_scan's symbols
    failsLeft,      \* exchange calls that may still raise in this run
    sem,            \* free permits of the semaphore
    semq,           \* its waiters, first come first served: <<symbol, slot>>
    state,          \* run_scan's state dict
    last_ui_update, \* run_scan's last_ui_update
    shown,          \* the state the progress callback rendered last
    wpc,            \* wpc[s]: where worker s is
    ctx,            \* ctx[s]: want_sell and pivot_ts of the candidate
    fs,             \* fs[s][k]: the fetch of worker s in slot k
    trace,          \* trace[s]: fetches issued and stage verdicts, in order
    lastFetch,      \* lastFetch[s]: the fetch of worker s that returned last
    hist,           \* what happened in the last run and since
    job,            \* a detector call: the function and its arguments
    result          \* what the detector calls on job returned

vars == <<now, exMarkets, data, clicksLeft, session, rpc, mode, t0, symbols,
          failsLeft, sem, semq, state, last_ui_update, shown, wpc, ctx, fs,
          trace, lastFetch, failBudget, hist, job, result>>

\* What no step of a scan writes.
envVars  == <<exMarkets, data, failBudget, mode, job, result>>
runVars  == <<symbols, failsLeft, sem, semq, state, last_ui_update, shown,
              wpc, ctx, fs, trace, lastFetch>>

Slots == {1, 2}

NoMarkets == {}

\* The state dict run_scan creates.
NewState(total) ==
    [s1_done |-> 0, s2_in |-> 0, s3_in |-> 0,
     buy_valid |-> <<>>, buy_wait |-> <<>>,
     sell_valid |-> <<>>, sell_wait |-> <<>>, total |-> total]

NoState == NewState(-1)

\* _init_session: the defaults of a new session.
NewSession ==
    [markets |-> NoMarkets, scan_done |-> FALSE, scan_state |-> NoState,
     scan_mode |-> "15m", df_final |-> <<>>,
     buy_valid |-> <<>>, buy_wait |-> <<>>,
     sell_valid |-> <<>>, sell_wait |-> <<>>, csv_bytes |-> <<>>]

IdleFetch ==
    [st |-> "none", role |-> "none", attempt |-> 0, wake |-> 0,
     calls |-> 0, ok |-> FALSE, res |-> NoData]

NoCtx == [want_sell |-> FALSE, pivot_ts |-> 0]

NoFetch ==
    [role |-> "none", calls |-> 0, ok |-> FALSE, res |-> NoData]

\* History of the session, for stating properties:
\*   lastRun     "none", "running", "ok" or "failed": the last scan started
\*   failCause   "load" or "worker": where the failed scan's exception rose
\*   loadCalls   calls of load_markets in the last scan started
\*   cleared     the Markets button was pressed since the last scan started
\*   afterClear  the value of cleared when the last scan started
\*   prevCached  the setup of the last scan ended with a cached listing
\*   afterCached the value of prevCached when the last scan started
\*   allRaised   in the last scan some fetch saw RETRY_ATTEMPTS calls raise
NewHist ==
    [lastRun |-> "none", failCause |-> "none", loadCalls |-> 0,
     cleared |-> FALSE, afterClear |-> FALSE,
     prevCached |-> FALSE, afterCached |-> FALSE, allRaised |-> FALSE]

\* No detector call is under study.
NoJob == [fn |-> "none"]
NoResult == [calls |-> 0]

InitRun ==
    /\ job = NoJob
    /\ result = NoResult
    /\ rpc = "idle"
    /\ t0 = 0
    /\ symbols = {}
    /\ failsLeft = 0
    /\ sem = MAX_CONCURRENT
    /\ semq = <<>>
    /\ state = NoState
    /\ last_ui_update = 0
    /\ shown = NoState
    /\ wpc = [s \in exMarkets |-> "none"]
    /\ ctx = [s \in exMarkets |-> NoCtx]
    /\ fs = [s \in exMarkets |-> [k \in Slots |-> IdleFetch]]
    /\ trace = [s \in exMarkets |-> <<>>]
    /\ lastFetch = [s \in exMarkets |-> NoFetch]
    /\ hist = NewHist

\* One scan in 5m mode over NumSymbols symbols in a new session.
Init ==
    /\ now = StartClock
    /\ exMarkets = 1..NumSymbols
    /\ data \in ScanDatasets(exMarkets)
    /\ failBudget = ScanFailures
    /\ mode = "5m"
    /\ clicksLeft = 1
    /\ session = NewSession
    /\ InitRun

\* A new session over one symbol, with up to MaxRuns scans.
InitApp ==
    /\ now = StartClock
    /\ exMarkets = {1}
    /\ data \in [exMarkets -> ScanProfiles]
    /\ failBudget = ScanFailures
    /\ mode \in Modes
    /\ clicksLeft = MaxRuns
    /\ session = NewSession
    /\ InitRun

\* One scan over one symbol in a new session, over every profile.
InitWorker ==
    /\ now = StartClock
    /\ exMarkets = {1}
    /\ data \in [exMarkets -> AllProfiles]
    /\ failBudget = MaxFailures
    /\ mode \in Modes
    /\ clicksLeft = 1
    /\ session = NewSession
    /\ InitRun

(***************************************************************************)
(* The semaphore: asyncio.Semaphore(MAX_CONCURRENT), waiters served first  *)
(* come first served; release hands the permit to the first waiter.        *)
(* A bundle b = [fs, semq, sem] is threaded through one action.            *)
(***************************************************************************)
\* Variant: the first call is made without acquiring the semaphore.
BeginFetch_NoGate(b, s, k, role) ==
    [b EXCEPT !.fs[s][k] = [IdleFetch EXCEPT !.role = role,
                                             !.st = "inflight",
                                             !.calls = 1],
              !.sem = @ - 1]

\* `async with sem` at the start of fetch / fetch_raw, then the first call.
BeginFetch(b, s, k, role) ==
    LET free == b.sem > 0 /\ b.semq = <<>>
        rec  == [IdleFetch EXCEPT !.role = role,
                                  !.st = IF free THEN "inflight" ELSE "waiting",
                                  !.calls = IF free THEN 1 ELSE 0]
    IN  [fs   |-> [b.fs EXCEPT ![s][k] = rec],
         semq |-> IF free THEN b.semq ELSE Append(b.semq, <<s, k>>),
         sem  |-> IF free THEN b.sem - 1 ELSE b.sem]

\* Variant: with no waiter the permit is not given back.
Release_Lost(b) ==
    IF b.semq = <<>> THEN b
    ELSE LET h == Head(b.semq) IN
         [b EXCEPT !.semq = Tail(@),
                   !.fs[h[1]][h[2]].st = "inflight",
                   !.fs[h[1]][h[2]].calls = 1]

\* Leaving `async with sem`.
Release(b) ==
    IF b.semq = <<>> THEN [b EXCEPT !.sem = @ + 1]
    ELSE LET h == Head(b.semq) IN
         [b EXCEPT !.semq = Tail(@),
                   !.fs[h[1]][h[2]].st = "inflight",
                   !.fs[h[1]][h[2]].calls = 1]

\* Requests in flight at the exchange.
InFlight == {p \in exMarkets \X Slots : fs[p[1]][p[2]].st = "inflight"}

(***************************************************************************)
(* main: the Start Scan handler up to run_scan's first await, and the      *)
(* Markets button.                                                         *)
(***************************************************************************)
\* Variant: the lists are reset but scan_done keeps its value.
ResetForScan_KeepDone(ss) ==
    [ss EXCEPT !.df_final = <<>>, !.buy_valid = <<>>, !.buy_wait = <<>>,
               !.sell_valid = <<>>, !.sell_wait = <<>>]

\* The session_state.update at the start of a scan.
ResetForScan(ss) ==
    [ss EXCEPT !.scan_done = FALSE, !.df_final = <<>>,
               !.buy_valid = <<>>, !.buy_wait = <<>>,
               !.sell_valid = <<>>, !.sell_wait = <<>>, !.csv_bytes = <<>>]

RECURSIVE SortedSeq(_)
SortedSeq(S) ==
    IF S = {} THEN <<>>
    ELSE LET m == CHOOSE x \in S : \A y \in S : x <= y
         IN  <<m>> \o SortedSeq(S \ {m})

\* asyncio.gather(*[worker(s) for s in symbols]): every worker runs up to
\* its first await, the pivot fetch, in the order of the sorted symbols.
RECURSIVE StartWorkers(_, _)
StartWorkers(b, order) ==
    IF order = <<>> THEN b
    ELSE StartWorkers(BeginFetch(b, Head(order), 1, "pivot"), Tail(order))

Spawn(syms) ==
    LET b0 == [fs   |-> [s \in exMarkets |-> [k \in Slots |-> IdleFetch]],
               semq |-> <<>>, sem |-> MAX_CONCURRENT]
        b  == StartWorkers(b0, SortedSeq(syms))
    IN  /\ symbols' = syms
        /\ state' = NewState(Cardinality(syms))
        /\ last_ui_update' = 0
        /\ shown' = NoState
        /\ fs' = b.fs
        /\ semq' = b.semq
        /\ sem' = b.sem
        /\ wpc' = [s \in exMarkets |-> IF s \in syms THEN "s1_pivot" ELSE "none"]
        /\ ctx' = [s \in exMarkets |-> NoCtx]
        /\ trace' = [s \in exMarkets |->
                        IF s \in syms THEN <<"fetch_pivot">> ELSE <<>>]
        /\ lastFetch' = [s \in exMarkets |-> NoFetch]

NoWorkers ==
    /\ symbols' = {}
    /\ state' = NoState
    /\ last_ui_update' = 0
    /\ shown' = NoState
    /\ fs' = [s \in exMarkets |-> [k \in Slots |-> IdleFetch]]
    /\ semq' = <<>>
    /\ sem' = MAX_CONCURRENT
    /\ wpc' = [s \in exMarkets |-> "none"]
    /\ ctx' = [s \in exMarkets |-> NoCtx]
    /\ trace' = [s \in exMarkets |-> <<>>]
    /\ lastFetch' = [s \in exMarkets |-> NoFetch]

\* Start Scan: reset the session, then run_scan up to load_markets (no
\* cached listing) or up to the gather (cached listing).
ClickScan ==
    /\ rpc = "idle"
    /\ clicksLeft > 0
    /\ clicksLeft' = clicksLeft - 1
    /\ session' = ResetForScan(session)
    /\ t0' = now
    /\ failsLeft' = failBudget
    /\ hist' = [hist EXCEPT !.lastRun = "running", !.failCause = "none",
                            !.loadCalls = IF session.markets = NoMarkets
                                          THEN 1 ELSE 0,
                            !.afterClear = hist.cleared, !.cleared = FALSE,
                            !.afterCached = hist.prevCached,
                            !.allRaised = FALSE]
    /\ IF session.markets = NoMarkets
       THEN rpc' = "load" /\ NoWorkers
       ELSE rpc' = "gather" /\ Spawn(session.markets)
    /\ UNCHANGED <<now, envVars>>

\* load_markets returns: the listing is cached and the workers start.
LoadMarketsOk ==
    /\ rpc = "load"
    /\ session' = [session EXCEPT !.markets = exMarkets]
    /\ rpc' = "gather"
    /\ Spawn(exMarkets)
    /\ hist' = [hist EXCEPT !.prevCached = TRUE]
    /\ UNCHANGED <<now, envVars, clicksLeft, t0, failsLeft>>

\* load_markets raises: run_scan raises, main reports "Scan failed".
LoadMarketsFail ==
    /\ rpc = "load"
    /\ rpc' = "idle"
    /\ hist' = [hist EXCEPT !.lastRun = "failed", !.failCause = "load",
                            !.prevCached = FALSE]
    /\ UNCHANGED <<now, envVars, clicksLeft, session, t0, runVars>>

\* Variant: the Markets button leaves the cached listing in place.
PopMarkets_Keep(ss) == ss

\* st.session_state.pop("markets", None)
PopMarkets(ss) == [ss EXCEPT !.markets = NoMarkets]

\* The Markets button: drop the cached listing.
ClearMarkets ==
    /\ rpc = "idle"
    /\ session.markets # NoMarkets
    /\ session' = PopMarkets(session)
    /\ hist' = [hist EXCEPT !.cleared = TRUE]
    /\ UNCHANGED <<now, envVars, clicksLeft, rpc, t0, runVars>>

(***************************************************************************)
(* run_scan.worker: the bookkeeping around the stages.                     *)
(***************************************************************************)
\* Variant: the counter is written from the value read at the worker's start.
IncS1Done_Stale(st) == [st EXCEPT !.s1_done = 1]

\* state["s1_done"] += 1 and its like: read and write with no await between.
IncS1Done(st) == [st EXCEPT !.s1_done = @ + 1]
IncS2In(st)   == [st EXCEPT !.s2_in = @ + 1]
\* Variant: the Stage-3 counter moves by two.
IncS3In_Twice(st) == [st EXCEPT !.s3_in = @ + 2]

IncS3In(st) == [st EXCEPT !.s3_in = @ + 1]

\* Variant: the rank is not looked at, every record goes to a wait list.
ListOf_BySide(side, choch_st) ==
    IF side = "BUY" THEN "buy_wait" ELSE "sell_wait"

\* The list an accepted record goes to.
ListOf(side, choch_st) ==
    IF side = "BUY"
    THEN (IF choch_st = "valid" THEN "buy_valid" ELSE "buy_wait")
    ELSE (IF choch_st = "valid" THEN "sell_valid" ELSE "sell_wait")

\* Variant: the list is assigned instead of appended to.
AppendEntry_Assign(st, side, entry) ==
    [st EXCEPT ![ListOf(side, entry[3])] = <<entry>>]

\* state[list].append(entry); entry = <<sym, pivot_ts, choch_st>>.
AppendEntry(st, side, entry) ==
    LET l == ListOf(side, entry[3]) IN
    [st EXCEPT ![l] = Append(@, entry)]

\* After stage1_worker returned: count the symbol, refresh the UI if the
\* throttle allows.  st1 is the state after the increment.
AfterStage1(st1) ==
    IF now - last_ui_update >= UI_THROTTLE_S
    THEN shown' = st1 /\ last_ui_update' = now
    ELSE UNCHANGED <<shown, last_ui_update>>

\* Variant: the callback after an acceptance obeys the throttle.
AfterAccept_Throttled(st2) == AfterStage1(st2)

\* After an append: progress_callback(state) whatever the throttle says,
\* then last_ui_update = time.time().
AfterAccept(st2) == shown' = st2 /\ last_ui_update' = now

\* stage1_worker returned None: the worker ends.
WorkerDiscardS1(s, b, verdicts) ==
    /\ state' = IncS1Done(state)
    /\ AfterStage1(IncS1Done(state))
    /\ wpc' = [wpc EXCEPT ![s] = "done"]
    /\ trace' = [trace EXCEPT ![s] = @ \o verdicts]
    /\ fs' = b.fs /\ semq' = b.semq /\ sem' = b.sem
    /\ UNCHANGED ctx

(***************************************************************************)
(* The code that runs when fetch k of worker s returns res: the rest of    *)
(* the awaiting stage and of the worker, up to the next await.  b is the   *)
(* semaphore bundle after the fetch released its permit.                   *)
(***************************************************************************)
\* stage1_worker after the pivot fetch.
ResumePivot(s, b, arr_p) ==
    IF arr_p.n = 0 \/ arr_p.n < 6
    THEN WorkerDiscardS1(s, b, <<"s1_dis">>)
    ELSE IF ~arr_p.tsOk
    THEN \* int(arr_p[-2, 0]) raises ValueError on a NaN timestamp
         /\ wpc' = [wpc EXCEPT ![s] = "raised"]
         /\ trace' = [trace EXCEPT ![s] = Append(@, "raise")]
         /\ fs' = b.fs /\ semq' = b.semq /\ sem' = b.sem
         /\ UNCHANGED <<state, shown, last_ui_update, ctx>>
    ELSE IF PivotPattern(arr_p.piv) = "none"
    THEN WorkerDiscardS1(s, b, <<"s1_dis">>)
    ELSE IF AgeGateDiscards(now, arr_p.ts, mode)
    THEN WorkerDiscardS1(s, b, <<"s1_dis">>)
    ELSE LET b2 == BeginFetch(b, s, 1, "tdi") IN
         /\ ctx' = [ctx EXCEPT ![s] =
                      [want_sell |-> PivotPattern(arr_p.piv) = "sell",
                       pivot_ts |-> arr_p.ts]]
         /\ wpc' = [wpc EXCEPT ![s] = "s1_tdi"]
         /\ trace' = [trace EXCEPT ![s] = Append(@, "fetch_tdi")]
         /\ fs' = b2.fs /\ semq' = b2.semq /\ sem' = b2.sem
         /\ UNCHANGED <<state, shown, last_ui_update>>

\* stage1_worker after the momentum fetch, then the worker through
\* stage2_worker up to the first await of stage3_worker.
ResumeTdi(s, b, da) ==
    IF da.n = 0 \/ da.n < ADX_LEN * 2 \/ ~AdxPasses(da)
    THEN WorkerDiscardS1(s, b, <<"s1_dis">>)
    ELSE IF ~stage2_worker(ctx[s].want_sell, da)
    THEN /\ state' = IncS2In(IncS1Done(state))
         /\ AfterStage1(IncS1Done(state))
         /\ wpc' = [wpc EXCEPT ![s] = "done"]
         /\ trace' = [trace EXCEPT ![s] = @ \o <<"s1_acc", "s2_dis">>]
         /\ fs' = b.fs /\ semq' = b.semq /\ sem' = b.sem
         /\ UNCHANGED ctx
    ELSE LET b2 == BeginFetch(b, s, 1, "mid") IN
         /\ state' = IncS3In(IncS2In(IncS1Done(state)))
         /\ AfterStage1(IncS1Done(state))
         /\ wpc' = [wpc EXCEPT ![s] = "s3_mid"]
         /\ trace' = [trace EXCEPT ![s] =
                        @ \o <<"s1_acc", "s2_acc", "fetch_mid">>]
         /\ fs' = b2.fs /\ semq' = b2.semq /\ sem' = b2.sem
         /\ UNCHANGED ctx

\* stage3_worker returned None: the worker ends without touching the state.
WorkerDiscardS3(s, b, verdicts) ==
    /\ wpc' = [wpc EXCEPT ![s] = "done"]
    /\ trace' = [trace EXCEPT ![s] = @ \o verdicts]
    /\ fs' = b.fs /\ semq' = b.semq /\ sem' = b.sem
    /\ UNCHANGED <<state, shown, last_ui_update, ctx>>

\* stage3_worker after the lower-medium fetch: the Bollinger check, then
\* the gather of the execution and the structural fetch.
ResumeMid(s, b, dm) ==
    IF dm.n = 0 \/ dm.n < BB_LEN + 10
       \/ ~BbPasses(dm, ctx[s].want_sell, ctx[s].pivot_ts)
    THEN WorkerDiscardS3(s, b, <<"s3_dis">>)
    ELSE /\ wpc' = [wpc EXCEPT ![s] = "s3_gather"]
         /\ fs' = [b.fs EXCEPT
                     ![s][1] = [IdleFetch EXCEPT !.st = "new", !.role = "sig"],
                     ![s][2] = [IdleFetch EXCEPT !.st = "new", !.role = "choch"]]
         /\ semq' = b.semq /\ sem' = b.sem
         /\ UNCHANGED <<state, shown, last_ui_update, ctx, trace>>

\* stage3_worker after the gather: final signal, Stage 4, and the worker's
\* append of the accepted record.
ResumeGather(s, b, ds, dc) ==
    LET want_sell   == ctx[s].want_sell
        sig_ts_list == signals_tf(ds, ctx[s].pivot_ts, want_sell)
        choch_st    == ChochStatus(dc, sig_ts_list, want_sell)
        side        == IF want_sell THEN "SELL" ELSE "BUY"
        st2         == AppendEntry(state, side, <<s, ctx[s].pivot_ts, choch_st>>)
    IN  IF ds.n = 0 \/ ds.n < 80 \/ sig_ts_list = <<>>
        THEN WorkerDiscardS3(s, b, <<"s3_dis">>)
        ELSE IF choch_st = "invalid"
        THEN WorkerDiscardS3(s, b, <<"s3_acc", "s4_dis">>)
        ELSE /\ state' = st2
             /\ AfterAccept(st2)
             /\ wpc' = [wpc EXCEPT ![s] = "done"]
             /\ trace' = [trace EXCEPT ![s] = @ \o <<"s3_acc", "s4_acc">>]
             /\ fs' = b.fs /\ semq' = b.semq /\ sem' = b.sem
             /\ UNCHANGED ctx

\* Fetch k of worker s returns res (ok: one of its calls succeeded).
FetchReturns(s, k, ok, res) ==
    LET done == IF wpc[s] = "s3_gather"
                THEN [fs[s][k] EXCEPT !.st = "done", !.ok = ok, !.res = res]
                ELSE IdleFetch
        b    == Release([fs |-> [fs EXCEPT ![s][k] = done],
                         semq |-> semq, sem |-> sem])
        o    == 3 - k
    IN  /\ lastFetch' = [lastFetch EXCEPT ![s] =
                           [role |-> fs[s][k].role, calls |-> fs[s][k].calls,
                            ok |-> ok, res |-> res]]
        /\ CASE wpc[s] = "s1_pivot" -> ResumePivot(s, b, res)
             [] wpc[s] = "s1_tdi"   -> ResumeTdi(s, b, res)
             [] wpc[s] = "s3_mid"   -> ResumeMid(s, b, res)
             [] wpc[s] = "s3_gather" ->
                 IF fs[s][o].st = "done"
                 THEN ResumeGather(s,
                        [b EXCEPT !.fs[s] = [j \in Slots |-> IdleFetch]],
                        b.fs[s][1].res, b.fs[s][2].res)
                 ELSE /\ fs' = b.fs /\ semq' = b.semq /\ sem' = b.sem
                      /\ UNCHANGED <<state, shown, last_ui_update, wpc, ctx,
                                     trace>>

(***************************************************************************)
(* fetch / fetch_raw: the retry loop inside `async with sem`.              *)
(***************************************************************************)
\* Variant: the same sleep after every failed attempt.
Backoff_Flat(attempt) == RETRY_BASE_DELAY

\* The sleep after failed attempt number `attempt` (0-based).
Backoff(attempt) == RETRY_BASE_DELAY * Pow2(attempt)

\* Variant: one attempt too many, range(RETRY_ATTEMPTS + 1).
RetriesAfter_OneMore(attempt) == attempt < RETRY_ATTEMPTS

\* Variant: the first raised call already gives up.
RetriesAfter_Never(attempt) == FALSE

\* Whether the loop sleeps and tries again after failed attempt `attempt`.
RetriesAfter(attempt) == attempt < RETRY_ATTEMPTS - 1

\* ex.fetch_ohlcv returns the series of the symbol and timeframe.
CallReturns(s, k) ==
    /\ rpc = "gather"
    /\ fs[s][k].st = "inflight"
    /\ FetchReturns(s, k, TRUE, Convert(fs[s][k].role, data[s][fs[s][k].role]))
    /\ UNCHANGED <<now, envVars, clicksLeft, session, rpc, t0, symbols,
                   failsLeft, hist>>

\* ex.fetch_ohlcv raises: sleep and retry, or give up with "no data".
CallRaises(s, k) ==
    /\ rpc = "gather"
    /\ fs[s][k].st = "inflight"
    /\ failsLeft > 0
    /\ failsLeft' = failsLeft - 1
    /\ hist' = [hist EXCEPT !.allRaised =
                   @ \/ fs[s][k].calls >= RETRY_ATTEMPTS]
    /\ IF RetriesAfter(fs[s][k].attempt)
       THEN /\ fs' = [fs EXCEPT ![s][k].st = "sleeping",
                                ![s][k].wake = now + Backoff(fs[s][k].attempt)]
            /\ UNCHANGED <<sem, semq, state, last_ui_update, shown, wpc, ctx,
                           trace, lastFetch>>
       ELSE FetchReturns(s, k, FALSE, NoData)
    /\ UNCHANGED <<now, envVars, clicksLeft, session, rpc, t0, symbols>>

\* asyncio.sleep is over: the next attempt's call goes out.
WakeUp(s, k) ==
    /\ rpc = "gather"
    /\ fs[s][k].st = "sleeping"
    /\ now >= fs[s][k].wake
    /\ fs' = [fs EXCEPT ![s][k].st = "inflight",
                        ![s][k].attempt = @ + 1,
                        ![s][k].calls = @ + 1]
    /\ UNCHANGED <<now, envVars, clicksLeft, session, rpc, t0, symbols,
                   failsLeft, sem, semq, state, last_ui_update, shown, wpc,
                   ctx, trace, lastFetch, hist>>

\* Time passes while a fetch sleeps.
Tick ==
    /\ rpc = "gather"
    /\ \E s \in symbols, k \in Slots :
          fs[s][k].st = "sleeping" /\ fs[s][k].wake > now
    /\ now' = now + RETRY_BASE_DELAY
    /\ UNCHANGED <<envVars, clicksLeft, session, rpc, t0, runVars, hist>>

\* A task of the Stage-3 gather starts: fetch enters `async with sem`.
\* The tasks start in the order gather got them.
TaskStart(s, k) ==
    /\ rpc = "gather"
    /\ wpc[s] = "s3_gather"
    /\ fs[s][k].st = "new"
    /\ k = 2 => fs[s][1].st # "new"
    /\ LET b == BeginFetch([fs |-> fs, semq |-> semq, sem |-> sem], s, k,
                           fs[s][k].role)
       IN  fs' = b.fs /\ semq' = b.semq /\ sem' = b.sem
    /\ trace' = [trace EXCEPT ![s] =
                   Append(@, IF k = 1 THEN "fetch_sig" ELSE "fetch_choch")]
    /\ UNCHANGED <<now, envVars, clicksLeft, session, rpc, t0, symbols,
                   failsLeft, state, last_ui_update, shown, wpc, ctx, lastFetch,
                   hist>>

(***************************************************************************)
(* The end of run_scan and what main makes of it.                          *)
(***************************************************************************)
\* sorted(list, key=lambda x: x[0]): a stable sort by symbol.
RECURSIVE SortBySym(_)
SortBySym(q) ==
    IF q = <<>> THEN <<>>
    ELSE LET rest == SortBySym(Tail(q))
             lo   == SelectSeq(rest, LAMBDA e : e[1] < Head(q)[1])
             hi   == SelectSeq(rest, LAMBDA e : e[1] >= Head(q)[1])
         IN  lo \o <<Head(q)>> \o hi

Syms(q) == [i \in 1..Len(q) |-> q[i][1]]

Rows(dir, q) == [i \in 1..Len(q) |-> <<dir, q[i][1], q[i][3]>>]

\* main after run_scan returned st: the sorted lists, the export, and the
\* session_state.update that marks the scan done.
StoreResults(ss, st, mode_key) ==
    LET bv  == SortBySym(st.buy_valid)   bw == SortBySym(st.buy_wait)
        sv  == SortBySym(st.sell_valid)  sw == SortBySym(st.sell_wait)
        all == Rows("BUY", bv) \o Rows("BUY", bw)
               \o Rows("SELL", sv) \o Rows("SELL", sw)
    IN  [ss EXCEPT !.scan_done = TRUE, !.scan_state = st,
                   !.scan_mode = mode_key, !.df_final = all,
                   !.buy_valid = Syms(bv), !.buy_wait = Syms(bw),
                   !.sell_valid = Syms(sv), !.sell_wait = Syms(sw),
                   !.csv_bytes = all]

\* Variant: the gather is over as soon as one worker has ended.
AllWorkersDone_Any == \E s \in symbols : wpc[s] = "done"

\* Whether the gather of run_scan is over without an exception.
AllWorkersDone == \A s \in symbols : wpc[s] = "done"

\* The gather is over: the final progress callback, run_scan returns the
\* state and main stores it.
ScanReturn ==
    /\ rpc = "gather"
    /\ AllWorkersDone
    /\ shown' = state
    /\ session' = StoreResults(session, state, mode)
    /\ rpc' = "idle"
    /\ hist' = [hist EXCEPT !.lastRun = "ok"]
    /\ UNCHANGED <<now, envVars, clicksLeft, t0, symbols, failsLeft,
                   sem, semq, state, last_ui_update, wpc, ctx, fs, trace,
                   lastFetch>>

\* A worker raised: the gather re-raises, run_scan closes the exchange and
\* raises, main reports "Scan failed" and stores nothing.  The tasks still
\* pending are abandoned.
ScanFail ==
    /\ rpc = "gather"
    /\ \E s \in symbols : wpc[s] = "raised"
    /\ rpc' = "idle"
    /\ hist' = [hist EXCEPT !.lastRun = "failed", !.failCause = "worker"]
    /\ UNCHANGED <<now, envVars, clicksLeft, session, t0, runVars>>

\* The results block of main renders the stored scan.
Rendered == session.scan_done /\ session.scan_state # NoState

(***************************************************************************)
(* Specifications.                                                         *)
(***************************************************************************)
Next ==
    \/ ClickScan
    \/ LoadMarketsOk
    \/ LoadMarketsFail
    \/ ClearMarkets
    \/ \E s \in symbols, k \in Slots : CallReturns(s, k)
    \/ \E s \in symbols, k \in Slots : CallRaises(s, k)
    \/ \E s \in symbols, k \in Slots : WakeUp(s, k)
    \/ \E s \in symbols, k \in Slots : TaskStart(s, k)
    \/ Tick
    \/ ScanReturn
    \/ ScanFail

Spec == Init /\ [][Next]_vars

SpecApp == InitApp /\ [][Next]_vars

SpecWorker == InitWorker /\ [][Next]_vars

(***************************************************************************)
(* The stages run one after the other on the data of one symbol with every *)
(* fetch answering at once, the clock standing at `clock`: the verdicts    *)
(* and the list of the accepted record.                                    *)
(***************************************************************************)
Verdict(v, l) == [v |-> v, list |-> l]

Pipeline(d, clock, md) ==
    LET arr_p == FetchRawResult(d.pivot) IN
    IF arr_p.n = 0 \/ arr_p.n < 6 THEN Verdict(<<"s1_dis">>, "none")
    ELSE IF ~arr_p.tsOk THEN Verdict(<<"raise">>, "none")
    ELSE IF PivotPattern(arr_p.piv) = "none" THEN Verdict(<<"s1_dis">>, "none")
    ELSE IF AgeGateDiscards(clock, arr_p.ts, md)
    THEN Verdict(<<"s1_dis">>, "none")
    ELSE
    LET want_sell == PivotPattern(arr_p.piv) = "sell"
        da == FetchResult(d.tdi)
        dm == FetchResult(d.mid)
        ds == FetchResult(d.sig)
        dc == FetchResult(d.choch)
        sig_ts_list == signals_tf(ds, arr_p.ts, want_sell)
        choch_st == ChochStatus(dc, sig_ts_list, want_sell)
        side == IF want_sell THEN "SELL" ELSE "BUY"
    IN  IF da.n = 0 \/ da.n < ADX_LEN * 2 \/ ~AdxPasses(da)
        THEN Verdict(<<"s1_dis">>, "none")
        ELSE IF ~stage2_worker(want_sell, da)
        THEN Verdict(<<"s1_acc", "s2_dis">>, "none")
        ELSE IF dm.n = 0 \/ dm.n < BB_LEN + 10
                \/ ~BbPasses(dm, want_sell, arr_p.ts)
        THEN Verdict(<<"s1_acc", "s2_acc", "s3_dis">>, "none")
        ELSE IF ds.n = 0 \/ ds.n < 80 \/ sig_ts_list = <<>>
        THEN Verdict(<<"s1_acc", "s2_acc", "s3_dis">>, "none")
        ELSE IF choch_st = "invalid"
        THEN Verdict(<<"s1_acc", "s2_acc", "s3_acc", "s4_dis">>, "none")
        ELSE Verdict(<<"s1_acc", "s2_acc", "s3_acc", "s4_acc">>,
                     ListOf(side, choch_st))

\* The names of the four result lists of the scan state.
Lists == {"buy_valid", "buy_wait", "sell_valid", "sell_wait"}

\* The symbols recorded in a list, and how often symbol s is recorded.
SymsIn(q) == {q[i][1] : i \in 1..Len(q)}
Count(q, s) == Cardinality({i \in 1..Len(q) : q[i][1] = s})

FetchEvents ==
    {"fetch_pivot", "fetch_tdi", "fetch_mid", "fetch_sig", "fetch_choch"}

\* What the run made of symbol s: its stage verdicts and its list.
Outcome(s) ==
    Verdict(SelectSeq(trace[s], LAMBDA e : e \notin FetchEvents),
            IF \E l \in Lists : s \in SymsIn(state[l])
            THEN CHOOSE l \in Lists : s \in SymsIn(state[l])
            ELSE "none")

(***************************************************************************)
(* Properties.                                                             *)
(***************************************************************************)

\* C1: the requests in flight at the exchange, summed over all workers and
\* over the two concurrent Stage-3 fetches of each worker, never exceed
\* MAX_CONCURRENT.
C1_InFlightBounded == Cardinality(InFlight) <= MAX_CONCURRENT

\* C1 witness: one worker has both Stage-3 requests in flight, the gate is
\* full and a fetch of another worker waits for a permit.
C1_GateFull ==
    /\ Cardinality(InFlight) = MAX_CONCURRENT
    /\ \E s \in symbols : \A k \in Slots : fs[s][k].st = "inflight"
    /\ semq # <<>>

\* The data a fetch of `role` returns once a call succeeded with `raw`:
\* fetch_raw turns a response of fewer than 5 rows into "no data".
Delivered(role, raw) ==
    IF role = "pivot" /\ raw.n < 5 THEN NoData ELSE raw

\* C2 as stated: a fetch makes at most RETRY_ATTEMPTS calls, returns the
\* response of the first call that succeeds, and returns "no data" if every
\* call raised.
C2_ReturnsFirstSuccess ==
    \A s \in symbols :
        LET f == lastFetch[s] IN
        f.role # "none" =>
            /\ f.calls <= RETRY_ATTEMPTS
            /\ f.ok => f.res = data[s][f.role]
            /\ ~f.ok => f.res = NoData

\* C2: a fetch makes at most RETRY_ATTEMPTS calls; it returns the response
\* of the first call that succeeds, except that fetch_raw returns "no data"
\* for a response of fewer than 5 rows; it returns "no data" if every call
\* raised.
C2_BoundedRetry ==
    \A s \in symbols :
        LET f == lastFetch[s] IN
        f.role # "none" =>
            /\ f.calls <= RETRY_ATTEMPTS
            /\ f.ok => f.res = Delivered(f.role, data[s][f.role])
            /\ ~f.ok => f.res = NoData

\* C2 witness: a fetch whose first two calls raised returned the data of
\* its third call.
C2_ThirdCallSucceeds ==
    \E s \in symbols :
        /\ lastFetch[s].ok
        /\ lastFetch[s].calls = RETRY_ATTEMPTS
        /\ lastFetch[s].res.n > 0

\* The age gate of symbol s gives the same verdict at the start of the scan
\* and now.
SameSideOfCeiling(s) ==
    LET p == data[s].pivot IN
    p.n < 6 \/ (now - p.ts > MaxAge(mode)) = (t0 - p.ts > MaxAge(mode))

\* C3 as stated: when no fetch of a symbol ran out of attempts, the
\* symbol's stage outcome is the one of the run in which every fetch
\* succeeded at its first call.
C3_RetriesInvisible ==
    \A s \in symbols :
        wpc[s] = "done" /\ ~hist.allRaised
            => Outcome(s) = Pipeline(data[s], t0, mode)

\* C3: when no fetch of a symbol ran out of attempts, and the time the
\* backoff sleeps took did not carry the anchor's age over the ceiling, the
\* symbol's stage outcome is the one of the run in which every fetch
\* succeeded at its first call.
C3_RetriesInvisibleToStages ==
    \A s \in symbols :
        wpc[s] = "done" /\ ~hist.allRaised /\ SameSideOfCeiling(s)
            => Outcome(s) = Pipeline(data[s], t0, mode)

\* C3 witness: a symbol was accepted although a fetch of it needed all
\* RETRY_ATTEMPTS calls.
C3_AcceptedAfterRetries ==
    \E s \in symbols :
        /\ wpc[s] = "done" /\ ~hist.allRaised
        /\ failBudget - failsLeft = RETRY_ATTEMPTS - 1
        /\ now > t0
        /\ Outcome(s).list # "none"

\* The events of a worker that ran through all four stages, and the runs
\* that end earlier: each is the full run cut after a fetch or a verdict,
\* closed by the discard of the stage reached.
FullRun ==
    <<"fetch_pivot", "fetch_tdi", "s1_acc", "s2_acc", "fetch_mid",
      "fetch_sig", "fetch_choch", "s3_acc", "s4_acc">>

CompleteRuns ==
    {FullRun,
     <<"fetch_pivot", "s1_dis">>,
     <<"fetch_pivot", "fetch_tdi", "s1_dis">>,
     <<"fetch_pivot", "fetch_tdi", "s1_acc", "s2_dis">>,
     SubSeq(FullRun, 1, 5) \o <<"s3_dis">>,
     SubSeq(FullRun, 1, 7) \o <<"s3_dis">>,
     SubSeq(FullRun, 1, 8) \o <<"s4_dis">>}

IsPrefix(p, q) == Len(p) <= Len(q) /\ p = SubSeq(q, 1, Len(p))

Events(s) == {trace[s][i] : i \in 1..Len(trace[s])}

\* The checks on the data of symbol s that precede each fetch.
PivotChecksPass(s) ==
    LET p == data[s].pivot IN
    /\ p.n >= 6
    /\ PivotPattern(p.piv) # "none"
    /\ t0 - p.ts <= MaxAge(mode)

MomentumChecksPass(s) ==
    LET da == data[s].tdi IN
    /\ da.n >= 60
    /\ AdxPasses(da)
    /\ IF PivotPattern(data[s].pivot.piv) = "sell"
       THEN da.tdi = "bear" /\ da.kcSell
       ELSE da.tdi = "bull" /\ da.kcBuy

BandCheckPasses(s) ==
    LET dm == data[s].mid IN
    /\ dm.n >= BB_LEN + 10
    /\ BbPasses(dm, PivotPattern(data[s].pivot.piv) = "sell", data[s].pivot.ts)

\* C4: a symbol goes through the stages in the order 1, 2, 3, 4 and skips
\* none; its fetches are issued in the order pivot, momentum, lower-medium,
\* then execution and structural; each fetch is issued only after the
\* checks on the series fetched before it have passed.
C4_StagesInOrder ==
    \A s \in symbols :
        /\ trace[s] = <<"fetch_pivot", "raise">>
           \/ \E c \in CompleteRuns : IsPrefix(trace[s], c)
        /\ wpc[s] = "done" => trace[s] \in CompleteRuns
        /\ "fetch_tdi" \in Events(s) => PivotChecksPass(s)
        /\ "fetch_mid" \in Events(s) => MomentumChecksPass(s)
        /\ "fetch_sig" \in Events(s) => BandCheckPasses(s)

\* C4 witness: a symbol went through all four stages and was accepted.
C4_RanAllStages == \E s \in symbols : trace[s] = FullRun /\ wpc[s] = "done"

\* The ceiling of the anchor's age: 8 hours in 5m mode, 48 hours in 15m mode.
Ceiling == IF mode = "5m" THEN 8 * HourMs ELSE 48 * HourMs

\* C5: when stage1_worker has matched the pattern and the anchor's age
\* exceeds the ceiling, by as little as one unit, the symbol is discarded at
\* Stage 1 and no momentum fetch is issued; at an age equal to the ceiling
\* (or below) it is not discarded by the gate and the momentum fetch is
\* issued.
C5_AgeGate ==
    [][\A s \in exMarkets :
         LET arr_p == lastFetch'[s].res IN
         (/\ wpc[s] = "s1_pivot"
          /\ wpc'[s] \notin {"s1_pivot", "none"}
          /\ arr_p.n >= 6
          /\ arr_p.tsOk
          /\ PivotPattern(arr_p.piv) # "none")
         => IF now - arr_p.ts > Ceiling
            THEN /\ wpc'[s] = "done"
                 /\ trace'[s] = <<"fetch_pivot", "s1_dis">>
                 /\ \A k \in Slots : fs'[s][k].st = "none"
            ELSE /\ wpc'[s] = "s1_tdi"
                 /\ Last(trace'[s]) = "fetch_tdi"
                 /\ fs'[s][1].role = "tdi"]_vars

\* C5 witness: a symbol with a matching pattern whose anchor was one unit
\* older than the ceiling was discarded at Stage 1.
C5_DiscardedOneOver ==
    \E s \in symbols :
        LET arr_p == lastFetch[s] IN
        /\ wpc[s] = "done"
        /\ trace[s] = <<"fetch_pivot", "s1_dis">>
        /\ arr_p.role = "pivot" /\ arr_p.res.n >= 6 /\ arr_p.res.tsOk
        /\ PivotPattern(arr_p.res.piv) # "none"
        /\ now - arr_p.res.ts = Ceiling + 1

\* The records of a list as a set of <<symbol, direction, rank>>.
Records(st) ==
    UNION {{<<st[l][i][1],
              IF l \in {"sell_valid", "sell_wait"} THEN "SELL" ELSE "BUY",
              st[l][i][3]>> : i \in 1..Len(st[l])} : l \in Lists}

\* The records the data call for when the clock stands at `clock`.
RecordsFor(clock) ==
    LET out(s) == Pipeline(data[s], clock, mode) IN
    {<<s,
       IF out(s).list \in {"sell_valid", "sell_wait"} THEN "SELL" ELSE "BUY",
       IF out(s).list \in {"sell_valid", "buy_valid"} THEN "valid" ELSE "wait">>
     : s \in {x \in symbols : out(x).list # "none"}}

\* C6: with the symbols, the data and the clock fixed, the set of accepted
\* records (symbol, direction, rank) of a completed scan is the same in
\* whatever order the workers' fetches completed: it is the set the data
\* call for.
C6_OrderIndependent ==
    hist.lastRun = "ok" /\ now = t0
        => /\ Records(state) = RecordsFor(t0)
           /\ Records(session.scan_state) = RecordsFor(t0)

\* C6 witness: a completed scan at a fixed clock in which two symbols were
\* appended to the same list in the reverse of their start order.
C6_ReverseOrderSameList ==
    /\ hist.lastRun = "ok" /\ now = t0
    /\ \E l \in Lists :
          /\ Len(state[l]) = 2
          /\ state[l][1][1] > state[l][2][1]

\* C7: at the completion of a scan the counters have lost no update:
\* s1_done is the number of symbols, s2_in the number of symbols Stage 1
\* accepted, s3_in the number Stage 2 accepted, and every accepted
\* candidate is recorded exactly once in the result lists.
C7_NoLostUpdates ==
    hist.lastRun = "ok" =>
        /\ state.s1_done = Cardinality(symbols)
        /\ state.s2_in = Cardinality({s \in symbols : "s1_acc" \in Events(s)})
        /\ state.s3_in = Cardinality({s \in symbols : "s2_acc" \in Events(s)})
        /\ \A s \in symbols :
              LET n0 == Count(state.buy_valid, s) + Count(state.buy_wait, s)
                        + Count(state.sell_valid, s)
                        + Count(state.sell_wait, s)
              IN  n0 = IF "s4_acc" \in Events(s) THEN 1 ELSE 0

\* C7 witness: a completed scan in which every symbol passed Stage 2 and
\* was accepted.
C7_AllCounted ==
    /\ hist.lastRun = "ok"
    /\ Cardinality(symbols) >= 2
    /\ state.s3_in = Cardinality(symbols)
    /\ \A s \in symbols : "s4_acc" \in Events(s)

\* C8 as stated: an exception raised in the stage computation of one symbol
\* does not fail the scan; a scan fails only by an exception raised outside
\* a worker (the load of the listing).
C8_WorkerExceptionContained ==
    hist.lastRun = "failed" => hist.failCause = "load"

\* The session shows no results.
ShowsNothing ==
    /\ ~session.scan_done
    /\ session.df_final = <<>>
    /\ session.csv_bytes = <<>>
    /\ \A l \in Lists : session[l] = <<>>
    /\ ~Rendered

\* C9: after a scan has failed, scan_done is false and the stored lists and
\* the export are empty: neither a partial aggregate of the failed scan nor
\* the results of an earlier scan are shown.
C9_FailedScanShowsNothing ==
    hist.lastRun = "failed" /\ rpc = "idle" => ShowsNothing

\* C9 witness: a scan failed after an earlier scan had completed with an
\* accepted record.
C9_FailedAfterCompleted ==
    /\ hist.lastRun = "failed" /\ rpc = "idle"
    /\ session.scan_state # NoState
    /\ Records(session.scan_state) # {}

\* C10: a scan loads the listing if and only if no listing is cached when
\* it starts: the first scan and a scan after an invalidation load it, a
\* scan after a scan that cached it (with no invalidation between) does
\* not; a failed load leaves the cache empty.
C10_ListingCache ==
    /\ hist.lastRun # "none" =>
          /\ hist.loadCalls = 0 <=> hist.afterCached /\ ~hist.afterClear
          /\ hist.afterClear => hist.loadCalls = 1
    /\ hist.lastRun = "failed" /\ hist.failCause = "load" /\ rpc = "idle"
          => session.markets = NoMarkets
    /\ rpc = "gather" => session.markets # NoMarkets

\* C10 witness: a scan that followed an invalidation loaded the listing
\* again and completed.
C10_ReloadedAfterInvalidation ==
    /\ hist.afterClear /\ hist.afterCached
    /\ hist.loadCalls = 1
    /\ hist.lastRun = "ok"

\* C11: whenever a worker appends a record to a result list, the progress
\* callback is invoked in the same stretch of code with a state that holds
\* the record, whatever the throttle says; and when all workers have ended
\* the callback is invoked once more with the final state.
C11_CallbackOnAcceptance ==
    [][/\ \A l \in Lists :
            Len(state'[l]) > Len(state[l])
                => /\ shown' = state'
                   /\ Last(shown'[l]) = Last(state'[l])
       /\ hist.lastRun = "running" /\ hist'.lastRun = "ok"
            => shown' = state /\ state' = state]_vars

\* C11 witness: the callback showed an appended record while the throttle
\* was closed (an earlier callback happened at the same clock reading) and
\* another worker was still running.
C11_ShownDespiteThrottle ==
    /\ rpc = "gather"
    /\ \E l \in Lists : state[l] # <<>>
    /\ shown = state
    /\ state.s1_done >= 2
    /\ now = t0
    /\ \E s \in symbols : wpc[s] # "done"

\* C12: run_scan returns only when every worker has ended: at its return
\* no worker is running, waiting for a permit or on a fetch, and all
\* permits are free; the state it returned does not change afterwards.
C12_ReturnsAfterAllWorkers ==
    [][/\ hist'.lastRun = "ok"
            => /\ \A s \in symbols' :
                    /\ wpc'[s] = "done"
                    /\ \A k \in Slots : fs'[s][k].st = "none"
               /\ semq' = <<>>
               /\ sem' = MAX_CONCURRENT
       /\ hist.lastRun = "ok" /\ hist'.lastRun = "ok"
            => state' = state /\ session'.scan_state = session.scan_state]_vars

\* C12 witness: run_scan returned after a scan of several symbols in which
\* a fetch had to sleep and a record was accepted.
C12_ReturnedAfterSlowWorker ==
    /\ hist.lastRun = "ok"
    /\ Cardinality(symbols) >= 2
    /\ now > t0
    /\ Records(state) # {}
    /\ session.scan_done

(***************************************************************************)
(* The detectors called on their own: validate_choch, calc_bos_choch,      *)
(* f_swing and calc_bb_continuation are pure functions of their            *)
(* arguments.  A job is one call; result holds what the calls on the job   *)
(* returned.                                                               *)
(***************************************************************************)
\* All sequences over S of length at most n.
RECURSIVE SeqsUpTo(_, _)
SeqsUpTo(S, n) ==
    IF n = 0 THEN {<<>>}
    ELSE LET shorter == SeqsUpTo(S, n - 1) IN
         shorter \cup {Append(q, x) : q \in {r \in shorter : Len(r) = n - 1},
                                      x \in S}

EventTypes == {"bull_bos", "bull_choch", "bear_bos", "bear_choch"}

\* Event times around a signal at SignalTs.
SignalTs == 300
EventTimes == {100, 300, 500}

\* calc_bos_choch returns its events sorted by time.
TimeSorted(ev) == \A i \in 1..Len(ev) - 1 : ev[i][1] <= ev[i + 1][1]

ValidateJobs ==
    {[fn |-> "validate_choch", events |-> ev, signal_ts_ms |-> SignalTs,
      want_sell |-> w] :
        ev \in {q \in SeqsUpTo(EventTimes \X EventTypes, MaxEvents) :
                    TimeSorted(q)},
        w \in BOOLEAN}

\* The variables of a scan, which a detector call leaves alone.
scanVars ==
    <<now, exMarkets, data, clicksLeft, session, rpc, mode, t0, symbols,
      failsLeft, sem, semq, state, last_ui_update, shown, wpc, ctx, fs,
      trace, lastFetch, failBudget, hist>>

\* A call of validate_choch.
ApplyValidateChoch ==
    /\ job.fn = "validate_choch"
    /\ result.calls = 0
    /\ result' = [calls |-> 1,
                  out |-> validate_choch(job.events, job.signal_ts_ms,
                                         job.want_sell)]
    /\ UNCHANGED <<scanVars, job>>

\* Candles as the detectors read them: high, low, close.  The generated
\* series are drawn from flat bars at five levels and two wide bars.
Bar(l, c, h) == [h |-> h, l |-> l, c |-> c]
PriceBars == {Bar(v, v, v) : v \in 0..4} \cup {Bar(1, 1, 2), Bar(1, 2, 3)}
PriceSeries == SeqsUpTo(PriceBars, MaxBars)

\* The lookbacks of f_swing, the pivot widths of calc_bos_choch and the
\* band lengths of calc_bb_continuation used on the generated series.
Lookbacks == {1, 2}

SetMax(S) == CHOOSE x \in S : \A y \in S : y <= x
SetMin(S) == CHOOSE x \in S : \A y \in S : x <= y

(***************************************************************************)
(* f_swing(h, l, c, no): the direction series avn.  Bar p here is index    *)
(* p - 1 of the arrays.                                                    *)
(***************************************************************************)
\* res[p] and sup[p]: rolling(no, min_periods=no) max of h and min of l,
\* defined from bar no on.
RollMax(bars, no, p) == SetMax({bars[k].h : k \in (p - no + 1)..p})
RollMin(bars, no, p) == SetMin({bars[k].l : k \in (p - no + 1)..p})

\* Variant: the rolling window includes the bar itself.
Avd_OwnBar(bars, no, p) ==
    IF p <= no THEN 0
    ELSE IF bars[p].c > RollMax(bars, no, p) THEN 1
    ELSE IF bars[p].c < RollMin(bars, no, p) THEN -1
    ELSE 0

\* avd = where(above_res != 0, above_res, below_sup), with
\* above_res[no:] = c[no:] > res[no-1:-1], below_sup[no:] = c[no:] < sup[no-1:-1].
Avd(bars, no, p) ==
    IF p <= no THEN 0
    ELSE IF bars[p].c > RollMax(bars, no, p - 1) THEN 1
    ELSE IF bars[p].c < RollMin(bars, no, p - 1) THEN -1
    ELSE 0

\* idx = where(avd != 0, arange(n), 0), then np.maximum.accumulate: array
\* indices, from 0.
SwingIdx(bars, no, p) ==
    SetMax({IF Avd(bars, no, k) # 0 THEN k - 1 ELSE 0 : k \in 1..p})

\* avn = avd[idx]; avn[:no] = 0.
f_swing(bars, no) ==
    [p \in 1..Len(bars) |->
        IF p <= no THEN 0 ELSE Avd(bars, no, SwingIdx(bars, no, p) + 1)]

SwingJobs ==
    {[fn |-> "f_swing", bars |-> b, no |-> k] :
        b \in PriceSeries, k \in Lookbacks}

\* A call of f_swing.
ApplyFSwing ==
    /\ job.fn = "f_swing"
    /\ result.calls = 0
    /\ result' = [calls |-> 1, out |-> f_swing(job.bars, job.no)]
    /\ UNCHANGED <<scanVars, job>>

(***************************************************************************)
(* calc_bos_choch(df, left, right): one pass over the bars.  Bar p here is *)
(* index p - 1 of the arrays.                                              *)
(***************************************************************************)
\* np.nan as the value of last_high / last_low (prices are not negative).
NaN == 0 - 1

\* The locals before the loop.
BosStart ==
    [last_high |-> NaN, high_broken |-> TRUE,
     last_low |-> NaN, low_broken |-> TRUE,
     break_type |-> 0, events |-> <<>>]

\* Variant: the reversal is told by the event's own side.
BullType_OwnSide(break_type) ==
    IF break_type = 1 THEN "bull_choch" ELSE "bull_bos"

\* etype of a break of the tracked high / low.
BullType(break_type) == IF break_type = 0 - 1 THEN "bull_choch" ELSE "bull_bos"
BearType(break_type) == IF break_type = 1 THEN "bear_choch" ELSE "bear_bos"

\* Bar mid is a confirmed local high / low at bar p = mid + right.
PivotHigh(bars, left, mid, p) ==
    /\ \A k \in (mid - left)..(mid - 1) : bars[mid].h > bars[k].h
    /\ \A k \in (mid + 1)..p : bars[mid].h > bars[k].h
PivotLow(bars, left, mid, p) ==
    /\ \A k \in (mid - left)..(mid - 1) : bars[mid].l < bars[k].l
    /\ \A k \in (mid + 1)..p : bars[mid].l < bars[k].l

\* Variant: a break of the tracked high does not mark it broken.
BosStep_Refire(bars, ts, left, right, p, st) ==
    LET mid == p - right
        piv == mid - 1 >= left
        s1  == IF piv /\ PivotHigh(bars, left, mid, p)
               THEN [st EXCEPT !.last_high = bars[mid].h,
                               !.high_broken = FALSE]
               ELSE st
        s2  == IF piv /\ PivotLow(bars, left, mid, p)
               THEN [s1 EXCEPT !.last_low = bars[mid].l,
                               !.low_broken = FALSE]
               ELSE s1
        s3  == IF s2.last_high # NaN /\ ~s2.high_broken
                  /\ bars[p].c > s2.last_high
               THEN [s2 EXCEPT !.events = Append(@, <<ts[p],
                                               BullType(s2.break_type)>>),
                               !.break_type = 1]
               ELSE s2
    IN  IF s3.last_low # NaN /\ ~s3.low_broken /\ bars[p].c < s3.last_low
        THEN [s3 EXCEPT !.low_broken = TRUE,
                        !.events = Append(@, <<ts[p],
                                        BearType(s3.break_type)>>),
                        !.break_type = 0 - 1]
        ELSE s3

\* The body of the loop at bar p on the locals st.
BosStep(bars, ts, left, right, p, st) ==
    LET mid == p - right
        piv == mid - 1 >= left
        s1  == IF piv /\ PivotHigh(bars, left, mid, p)
               THEN [st EXCEPT !.last_high = bars[mid].h,
                               !.high_broken = FALSE]
               ELSE st
        s2  == IF piv /\ PivotLow(bars, left, mid, p)
               THEN [s1 EXCEPT !.last_low = bars[mid].l,
                               !.low_broken = FALSE]
               ELSE s1
        s3  == IF s2.last_high # NaN /\ ~s2.high_broken
                  /\ bars[p].c > s2.last_high
               THEN [s2 EXCEPT !.high_broken = TRUE,
                               !.events = Append(@, <<ts[p],
                                               BullType(s2.break_type)>>),
                               !.break_type = 1]
               ELSE s2
    IN  IF s3.last_low # NaN /\ ~s3.low_broken /\ bars[p].c < s3.last_low
        THEN [s3 EXCEPT !.low_broken = TRUE,
                        !.events = Append(@, <<ts[p],
                                        BearType(s3.break_type)>>),
                        !.break_type = 0 - 1]
        ELSE s3

\* The locals after bar p, for p = 0 (before the loop) to Len(bars).
RECURSIVE BosRun(_, _, _, _, _)
BosRun(bars, ts, left, right, p) ==
    IF p = 0 THEN BosStart
    ELSE BosStep(bars, ts, left, right, p,
                 BosRun(bars, ts, left, right, p - 1))

\* Variant: the events are returned newest first.
RECURSIVE SortEvents_Descending(_)
SortEvents_Descending(ev) ==
    IF ev = <<>> THEN <<>>
    ELSE LET rest == SortEvents_Descending(SubSeq(ev, 1, Len(ev) - 1))
             e    == ev[Len(ev)]
             keep == SelectSeq(rest, LAMBDA x : x[1] >= e[1])
             move == SelectSeq(rest, LAMBDA x : x[1] < e[1])
         IN  keep \o <<e>> \o move

\* sorted(events, key=lambda x: x[0]): stable, by time.
RECURSIVE SortEvents(_)
SortEvents(ev) ==
    IF ev = <<>> THEN <<>>
    ELSE LET rest == SortEvents(SubSeq(ev, 1, Len(ev) - 1))
             e    == ev[Len(ev)]
             keep == SelectSeq(rest, LAMBDA x : x[1] <= e[1])
             move == SelectSeq(rest, LAMBDA x : x[1] > e[1])
         IN  keep \o <<e>> \o move

calc_bos_choch(bars, ts, left, right) ==
    SortEvents(BosRun(bars, ts, left, right, Len(bars)).events)

\* Candle times of a series: one bar every BarMs.
BarMs == 100
Times(bars) == [p \in 1..Len(bars) |-> BarMs * p]

\* A series with two breaks of a high and then a break of a low.
BosScenario ==
    <<Bar(2, 2, 2), Bar(3, 3, 3), Bar(2, 2, 2), Bar(4, 4, 4), Bar(3, 3, 3),
      Bar(5, 5, 5), Bar(0, 0, 0)>>

\* A break of a high, a bar that closes above the broken high, a newer
\* high and its break.
BosHeldScenario ==
    [p \in 1..7 |-> LET v == <<2, 3, 2, 4, 5, 4, 6>>[p] IN Bar(v, v, v)]

BosJobs ==
    {[fn |-> "calc_bos_choch", bars |-> b, ts |-> Times(b),
      left |-> k, right |-> k] :
        b \in PriceSeries \cup {BosScenario, BosHeldScenario},
        k \in Lookbacks}

\* A call of calc_bos_choch; emitted is the event list before the sort.
ApplyBosChoch ==
    /\ job.fn = "calc_bos_choch"
    /\ result.calls = 0
    /\ result' = [calls |-> 1,
                  out |-> calc_bos_choch(job.bars, job.ts, job.left,
                                         job.right),
                  emitted |-> BosRun(job.bars, job.ts, job.left, job.right,
                                     Len(job.bars)).events]
    /\ UNCHANGED <<scanVars, job>>

(***************************************************************************)
(* calc_bb_continuation(c, h, l, want_sell, length): bars carry the band   *)
(* values _sma and the rolling std give them; the first length - 1 bars    *)
(* have no bands (NaN basis).  Bar p here is index p - 1 of the arrays.    *)
(***************************************************************************)
BbBar(l, c, h) ==
    [h |-> h, l |-> l, c |-> c, lower |-> 2, basis |-> 4, upper |-> 6]

\* Bars of the generated series, by where they lie against the bands:
\* wholly below the lower band; closed below it with the high back at it;
\* between lower band and basis; closed above the basis; and the mirror
\* images at the upper band.
BbBars ==
    {BbBar(1, 1, 1), BbBar(1, 1, 3), BbBar(3, 3, 5), BbBar(3, 5, 5),
     BbBar(5, 7, 7), BbBar(7, 7, 7)}
BbSeries == SeqsUpTo(BbBars, MaxBars)

\* r1 / rule1_met, bb / band_broken, ar / armed before the loop.
BbIdle == [r1 |-> FALSE, bb |-> FALSE, ar |-> FALSE]

\* Variant: the flags are kept from the previous call.
BbInit_Kept(prev) == prev

\* The flags at the start of a call, whatever the previous call left.
BbInit(prev) == BbIdle

\* One bar of _calc_bb_loop: the flags after the bar and sig[i].
BbLoopStep(b, want_sell, st) ==
    LET ext   == IF want_sell THEN b.h < b.lower ELSE b.l > b.upper
        reset == IF want_sell THEN b.l > b.upper ELSE b.h < b.lower
        brk   == IF want_sell THEN b.c < b.lower ELSE b.c > b.upper
        rtst  == IF want_sell THEN b.h >= b.lower ELSE b.l <= b.upper
        cross == IF want_sell THEN b.c < b.basis ELSE b.c > b.basis
        s1 == IF ext THEN [st EXCEPT !.r1 = TRUE] ELSE st
        s2 == IF reset THEN BbIdle ELSE s1
        s3 == IF s2.r1 /\ brk THEN [s2 EXCEPT !.bb = TRUE, !.ar = FALSE]
              ELSE s2
        s4 == IF s3.bb /\ rtst THEN [s3 EXCEPT !.ar = TRUE] ELSE s3
    IN  IF s4.ar /\ cross
        THEN [st |-> [s4 EXCEPT !.bb = FALSE, !.ar = FALSE], sig |-> TRUE]
        ELSE [st |-> s4, sig |-> FALSE]

\* Variant: no bar resets the flags.
BbMainStep_NoReset(b, want_sell, st) ==
    LET ext   == IF want_sell THEN b.h < b.lower ELSE b.l > b.upper
        reset == IF want_sell THEN b.l > b.upper ELSE b.h < b.lower
        brk   == IF want_sell THEN b.c < b.lower ELSE b.c > b.upper
        rtst  == IF want_sell THEN b.h >= b.lower ELSE b.l <= b.upper
        cross == IF want_sell THEN b.c < b.basis ELSE b.c > b.basis
        s1 == st
        s2 == IF ext THEN [s1 EXCEPT !.r1 = TRUE] ELSE s1
        s3 == IF s2.r1 /\ brk /\ ~s2.ar
              THEN [s2 EXCEPT !.bb = TRUE, !.ar = FALSE]
              ELSE s2
        s4 == IF s3.bb /\ rtst THEN [s3 EXCEPT !.ar = TRUE] ELSE s3
    IN  IF s4.ar /\ cross
        THEN [st |-> [s4 EXCEPT !.bb = FALSE, !.ar = FALSE], sig |-> TRUE]
        ELSE [st |-> s4, sig |-> FALSE]

\* Variant: on the long side a break while armed disarms.
BbMainStep_LongRebreaks(b, want_sell, st) ==
    LET ext   == IF want_sell THEN b.h < b.lower ELSE b.l > b.upper
        reset == IF want_sell THEN b.l > b.upper ELSE b.h < b.lower
        brk   == IF want_sell THEN b.c < b.lower ELSE b.c > b.upper
        rtst  == IF want_sell THEN b.h >= b.lower ELSE b.l <= b.upper
        cross == IF want_sell THEN b.c < b.basis ELSE b.c > b.basis
        s1 == IF reset THEN BbIdle ELSE st
        s2 == IF ext THEN [s1 EXCEPT !.r1 = TRUE] ELSE s1
        s3 == IF s2.r1 /\ brk /\ (want_sell => ~s2.ar)
              THEN [s2 EXCEPT !.bb = TRUE, !.ar = FALSE]
              ELSE s2
        s4 == IF s3.bb /\ rtst THEN [s3 EXCEPT !.ar = TRUE] ELSE s3
    IN  IF s4.ar /\ cross
        THEN [st |-> [s4 EXCEPT !.bb = FALSE, !.ar = FALSE], sig |-> TRUE]
        ELSE [st |-> s4, sig |-> FALSE]

\* One bar of the loop in calc_bb_continuation.
BbMainStep(b, want_sell, st) ==
    LET ext   == IF want_sell THEN b.h < b.lower ELSE b.l > b.upper
        reset == IF want_sell THEN b.l > b.upper ELSE b.h < b.lower
        brk   == IF want_sell THEN b.c < b.lower ELSE b.c > b.upper
        rtst  == IF want_sell THEN b.h >= b.lower ELSE b.l <= b.upper
        cross == IF want_sell THEN b.c < b.basis ELSE b.c > b.basis
        s1 == IF reset THEN BbIdle ELSE st
        s2 == IF ext THEN [s1 EXCEPT !.r1 = TRUE] ELSE s1
        s3 == IF s2.r1 /\ brk /\ ~s2.ar
              THEN [s2 EXCEPT !.bb = TRUE, !.ar = FALSE]
              ELSE s2
        s4 == IF s3.bb /\ rtst THEN [s3 EXCEPT !.ar = TRUE] ELSE s3
    IN  IF s4.ar /\ cross
        THEN [st |-> [s4 EXCEPT !.bb = FALSE, !.ar = FALSE], sig |-> TRUE]
        ELSE [st |-> s4, sig |-> FALSE]

\* if n < 2 * length: the fallback loop.
UsesLoop(n, length) == n < 2 * length

\* The run over bars 1..p of a series of n bars from the flags st0: the
\* flags after each bar and the emission flags.
RECURSIVE BbRun(_, _, _, _, _)
BbRun(bars, want_sell, length, p, st0) ==
    IF p = 0 THEN [states |-> <<>>, sig |-> <<>>, st |-> st0]
    ELSE LET r    == BbRun(bars, want_sell, length, p - 1, st0)
             step == IF p <= length - 1
                     THEN [st |-> r.st, sig |-> FALSE]
                     ELSE IF UsesLoop(Len(bars), length)
                     THEN BbLoopStep(bars[p], want_sell, r.st)
                     ELSE BbMainStep(bars[p], want_sell, r.st)
         IN  [states |-> Append(r.states, step.st),
              sig |-> Append(r.sig, step.sig),
              st |-> step.st]

calc_bb_continuation(bars, want_sell, length) ==
    BbRun(bars, want_sell, length, Len(bars), BbInit(BbIdle)).sig

\* The series of the short-side scenario: quiet bars, the high below the
\* lower band at bar 10, the close below it at bar 12, the high back at the
\* band at bar 15, the close below the basis at bar 18 (bar p here is bar
\* p - 1 of the scenario).  In ScenarioB the bars 10 and 11 close inside
\* the bands above their high; in ScenarioBClosed they close at their high,
\* below the band.
ScenarioB ==
    [p \in 1..19 |->
        IF p <= 10 THEN BbBar(3, 5, 5)
        ELSE IF p <= 12 THEN [BbBar(1, 1, 1) EXCEPT !.c = 3]
        ELSE IF p <= 15 THEN BbBar(1, 1, 1)
        ELSE IF p <= 18 THEN BbBar(3, 5, 5)
        ELSE BbBar(3, 3, 5)]

ScenarioBClosed ==
    [p \in 1..19 |-> IF p \in {11, 12} THEN BbBar(1, 1, 1) ELSE ScenarioB[p]]

\* A series that is one bar short of the general path, and the same series
\* with one more bar: after two bars without bands, a bar below the lower
\* band, a bar that comes back above the basis, and a bar below the band
\* again.
ShortOfGeneral ==
    <<BbBar(3, 5, 5), BbBar(3, 5, 5), BbBar(1, 1, 1), BbBar(3, 5, 5),
      BbBar(1, 1, 1)>>

\* Five candles at lookback 3, so the fallback loop runs: extension, retest
\* above the basis, then a bar whose low is above the upper band.
ResetInFallback ==
    <<BbBar(3, 5, 5), BbBar(3, 5, 5), BbBar(1, 1, 1), BbBar(3, 5, 5),
      BbBar(7, 7, 7)>>

BbJobs ==
    {[fn |-> "calc_bb_continuation", bars |-> b, want_sell |-> w,
      length |-> k] : b \in BbSeries, w \in BOOLEAN, k \in Lookbacks}
    \cup {[fn |-> "calc_bb_continuation", bars |-> b, want_sell |-> TRUE,
           length |-> k] : b \in {ScenarioB, ScenarioBClosed}, k \in {5, 10}}
    \cup {[fn |-> "calc_bb_continuation", bars |-> b, want_sell |-> TRUE,
           length |-> 3] :
              b \in {ShortOfGeneral, Append(ShortOfGeneral, BbBar(3, 5, 5)),
                     ResetInFallback}}

\* A call of calc_bb_continuation on the job's arrays; the second call
\* follows the first on the same arrays.
ApplyBbContinuation ==
    /\ job.fn = "calc_bb_continuation"
    /\ result.calls < 2
    /\ LET prev == IF result.calls = 0 THEN BbIdle ELSE result.final
           r    == BbRun(job.bars, job.want_sell, job.length, Len(job.bars),
                         BbInit(prev))
       IN  result' = [calls |-> result.calls + 1, out |-> r.sig,
                      final |-> r.st, states |-> r.states]
    /\ UNCHANGED <<scanVars, job>>

(***************************************************************************)
(* Stage 4 of stage3_worker on a structural series that is long enough:    *)
(* the events calc_bos_choch returned and the ascending signal timestamps  *)
(* signals_tf returned.                                                    *)
(***************************************************************************)
\* Signal times that cut the event times three different ways.
SigTimes == {300, 500, 600}

ChochJobs ==
    {[fn |-> "choch_status", events |-> ev, sig_ts_list |-> SortedSeq(S),
      want_sell |-> w] :
        ev \in {q \in SeqsUpTo(EventTimes \X EventTypes, MaxEvents) :
                    TimeSorted(q)},
        S \in SUBSET SigTimes \ {{}},
        w \in BOOLEAN}

\* The status of the candidate and whether stage3_worker returns a record
\* (None on "invalid").
ApplyChochStatus ==
    /\ job.fn = "choch_status"
    /\ result.calls = 0
    /\ LET dc == [n |-> BOS_LR * 2 + 5, events |-> job.events]
           st == ChochStatus(dc, job.sig_ts_list, job.want_sell)
       IN  result' = [calls |-> 1, out |-> st, accepted |-> st # "invalid"]
    /\ UNCHANGED <<scanVars, job>>

(***************************************************************************)
(* signals_tf: the final-signal detector.  Its loop reads five derived     *)
(* series; a bar of the model carries their values at that bar:            *)
(*   dir_main  the primary swing direction f_swing(h, l, c, SWING_UTAMA)   *)
(*             returns: 1, -1, or 0 before the first breakout;             *)
(*   c_tsm     the sign of close - tsm (tsm is the trailing low when       *)
(*             dir_main = 1, else the trailing high, so the close is above *)
(*             only when dir_main = 1 and below only otherwise);           *)
(*   c_tsa     the sign of close - tsa, the secondary trailing level;      *)
(*   wt2       the pressure oscillator;                                    *)
(*   vf        fast volume average > slow volume average.                  *)
(* Bar q of a series is bar q - 1 of the arrays; pointers and window_start *)
(* keep the indices of the arrays.                                         *)
(***************************************************************************)
SWING_UTAMA == 50
LOOKBACK_SIG == 100

SigBar(dir, tsm, tsa, wt, vol) ==
    [dir_main |-> dir, c_tsm |-> tsm, c_tsa |-> tsa, wt2 |-> wt, vf |-> vol]

\* above = c > tsm, below = c < tsm.
above(b) == b.c_tsm > 0
below(b) == b.c_tsm < 0

\* raw_buy_p = (wt2 < 20) & above, raw_sell_p = (wt2 > 80) & below.
raw_buy_p(b) == b.wt2 < 20 /\ above(b)
raw_sell_p(b) == b.wt2 > 80 /\ below(b)

\* buy_pressure / sell_pressure at bar q: the rising edge of the raw series.
buy_pressure(s, q) == q > 1 /\ raw_buy_p(s[q]) /\ ~raw_buy_p(s[q - 1])
sell_pressure(s, q) == q > 1 /\ raw_sell_p(s[q]) /\ ~raw_sell_p(s[q - 1])

\* cup / cdn at bar q: the close crosses the secondary level.
cup(s, q) == q > 1 /\ s[q].c_tsa > 0 /\ s[q - 1].c_tsa <= 0
cdn(s, q) == q > 1 /\ s[q].c_tsa < 0 /\ s[q - 1].c_tsa >= 0

\* end = n - 1; window_start = searchsorted(ts_arr[:end], from_ts) when an
\* anchor is given, else max(0, end - LOOKBACK_SIG).
WindowStart(s, from_ts) ==
    LET end == Len(s) - 1
        ts  == Times(s)
    IN  IF from_ts > 0
        THEN Cardinality({q \in 1..end : ts[q] < from_ts})
        ELSE IF end - LOOKBACK_SIG > 0 THEN end - LOOKBACK_SIG ELSE 0

\* The direction a call trades: -1 for want_sell, 1 otherwise.
TradeDir(want_sell) == IF want_sell THEN 0 - 1 ELSE 1

\* The parts of the emission condition that do not depend on the pointer,
\* the window or the primary direction: cross, volume filter, price side.
CrossOk(s, q, want_sell) ==
    IF want_sell THEN cdn(s, q) /\ s[q].vf /\ below(s[q])
    ELSE cup(s, q) /\ s[q].vf /\ above(s[q])

PressureAt(s, q, want_sell) ==
    IF want_sell THEN sell_pressure(s, q) ELSE buy_pressure(s, q)

\* Variant: only a flip from the opposite direction counts.
FlipsInto_FromOpposite(s, q, d) ==
    s[q].dir_main = d /\ s[q - 1].dir_main = 0 - d

\* dir_main[i] == d and dir_main[i - 1] != d.
FlipsInto(s, q, d) == s[q].dir_main = d /\ s[q - 1].dir_main # d

\* Variant: an emission leaves the pointer in place.
SigStep_KeepsPointer(s, q, want_sell, window_start, last_p_bar) ==
    LET i    == q - 1
        p1   == IF FlipsInto(s, q, TradeDir(want_sell)) THEN 0 - 1
                ELSE last_p_bar
        p2   == IF PressureAt(s, q, want_sell) THEN i ELSE p1
        emit == /\ i >= window_start /\ p2 >= 0
                /\ CrossOk(s, q, want_sell)
                /\ s[q].dir_main = TradeDir(want_sell)
    IN  IF emit THEN [ptr |-> p2, emit |-> TRUE]
        ELSE IF CrossOk(s, q, want_sell) /\ p2 >= 0
        THEN [ptr |-> 0 - 1, emit |-> FALSE]
        ELSE [ptr |-> p2, emit |-> FALSE]

\* Variant: a flip of the primary direction does not clear the pointer.
SigStep_NoFlipClear(s, q, want_sell, window_start, last_p_bar) ==
    LET i    == q - 1
        p1   == last_p_bar
        p2   == IF PressureAt(s, q, want_sell) THEN i ELSE p1
        emit == /\ i >= window_start /\ p2 >= 0
                /\ CrossOk(s, q, want_sell)
                /\ s[q].dir_main = TradeDir(want_sell)
    IN  IF emit THEN [ptr |-> 0 - 1, emit |-> TRUE]
        ELSE IF CrossOk(s, q, want_sell) /\ p2 >= 0
        THEN [ptr |-> 0 - 1, emit |-> FALSE]
        ELSE [ptr |-> p2, emit |-> FALSE]

\* Variant: a cross that emits nothing leaves the pointer in place.
SigStep_NoConsume(s, q, want_sell, window_start, last_p_bar) ==
    LET i    == q - 1
        p1   == IF FlipsInto(s, q, TradeDir(want_sell)) THEN 0 - 1
                ELSE last_p_bar
        p2   == IF PressureAt(s, q, want_sell) THEN i ELSE p1
        emit == /\ i >= window_start /\ p2 >= 0
                /\ CrossOk(s, q, want_sell)
                /\ s[q].dir_main = TradeDir(want_sell)
    IN  IF emit THEN [ptr |-> 0 - 1, emit |-> TRUE]
        ELSE [ptr |-> p2, emit |-> FALSE]

\* One pass of the single-direction loop, at bar q (index i = q - 1):
\* last_p_bar after the bar and whether the bar's timestamp is appended.
SigStep(s, q, want_sell, window_start, last_p_bar) ==
    LET i    == q - 1
        p1   == IF FlipsInto(s, q, TradeDir(want_sell)) THEN 0 - 1
                ELSE last_p_bar
        p2   == IF PressureAt(s, q, want_sell) THEN i ELSE p1
        emit == /\ i >= window_start /\ p2 >= 0
                /\ CrossOk(s, q, want_sell)
                /\ s[q].dir_main = TradeDir(want_sell)
    IN  IF emit THEN [ptr |-> 0 - 1, emit |-> TRUE]
        ELSE IF CrossOk(s, q, want_sell) /\ p2 >= 0
        THEN [ptr |-> 0 - 1, emit |-> FALSE]
        ELSE [ptr |-> p2, emit |-> FALSE]

\* The state of the loop before its first pass: i the index last passed,
\* no pointer, an empty list; ptrs keeps the pointer after each bar (bar 1
\* is not visited).
SigStart ==
    [i |-> 0, ptr |-> 0 - 1, sig_ts_list |-> <<>>, ptrs |-> <<0 - 1>>]

\* The loop state after the pass at bar q.
SigPass(s, want_sell, window_start, q, st) ==
    LET step == SigStep(s, q, want_sell, window_start, st.ptr)
    IN  [i |-> q - 1, ptr |-> step.ptr,
         sig_ts_list |-> IF step.emit THEN Append(st.sig_ts_list, Times(s)[q])
                         ELSE st.sig_ts_list,
         ptrs |-> Append(st.ptrs, step.ptr)]

\* for i in range(1, end): the passes at bars lo..hi in order, from the
\* loop state st (the range is split in halves, the first evaluated
\* before the second, to keep the evaluation shallow).
RECURSIVE SigRun(_, _, _, _, _, _)
SigRun(s, want_sell, window_start, lo, hi, st) ==
    IF lo > hi THEN st
    ELSE IF lo = hi THEN SigPass(s, want_sell, window_start, lo, st)
    ELSE LET mid  == (lo + hi) \div 2
             half == SigRun(s, want_sell, window_start, lo, mid, st)
         IN  IF half.i = mid - 1
             THEN SigRun(s, want_sell, window_start, mid + 1, hi, half)
             ELSE half

\* Variant: only the first signal of the window is returned.
signals_tf_single_FirstOnly(s, from_ts, want_sell) ==
    IF Len(s) < SWING_UTAMA + 10
    THEN [found |-> FALSE, sig_ts_list |-> <<>>, ptrs |-> <<>>]
    ELSE LET r == SigRun(s, want_sell, WindowStart(s, from_ts), 2,
                         Len(s) - 1, SigStart)
         IN  [found |-> Len(r.sig_ts_list) > 0,
              sig_ts_list |-> IF r.sig_ts_list = <<>> THEN <<>>
                              ELSE <<Head(r.sig_ts_list)>>,
              ptrs |-> r.ptrs]

\* signals_tf(df, from_ts, want_sell) with want_sell True or False.
signals_tf_single(s, from_ts, want_sell) ==
    IF Len(s) < SWING_UTAMA + 10
    THEN [found |-> FALSE, sig_ts_list |-> <<>>, ptrs |-> <<>>]
    ELSE LET r == SigRun(s, want_sell, WindowStart(s, from_ts), 2,
                         Len(s) - 1, SigStart)
         IN  [found |-> Len(r.sig_ts_list) > 0,
              sig_ts_list |-> r.sig_ts_list, ptrs |-> r.ptrs]

\* One pass of the debug loop: both pointers and final_buy[i],
\* final_sell[i].
DebugStep(s, q, st) ==
    LET i  == q - 1
        b1 == IF FlipsInto(s, q, 1) THEN 0 - 1 ELSE st.buy
        s1 == IF FlipsInto(s, q, 0 - 1) THEN 0 - 1 ELSE st.sell
        b2 == IF buy_pressure(s, q) THEN i ELSE b1
        s2 == IF sell_pressure(s, q) THEN i ELSE s1
        fbuy  == CrossOk(s, q, FALSE) /\ b2 >= 0 /\ s[q].dir_main = 1
        fsell == CrossOk(s, q, TRUE) /\ s2 >= 0 /\ s[q].dir_main = 0 - 1
    IN  [buy |-> IF fbuy THEN 0 - 1 ELSE b2,
         sell |-> IF fsell THEN 0 - 1 ELSE s2,
         fb |-> fbuy, fs |-> fsell]

\* The state of the debug loop before its first pass.
DebugStart ==
    [i |-> 0, buy |-> 0 - 1, sell |-> 0 - 1, final_buy |-> {},
     final_sell |-> {}]

\* The debug loop state after the pass at bar q: the pointers and the
\* indices i with final_buy[i], final_sell[i].
DebugPass(s, q, st) ==
    LET step == DebugStep(s, q, st)
    IN  [i |-> q - 1, buy |-> step.buy, sell |-> step.sell,
         final_buy |-> IF step.fb THEN st.final_buy \cup {q - 1}
                       ELSE st.final_buy,
         final_sell |-> IF step.fs THEN st.final_sell \cup {q - 1}
                        ELSE st.final_sell]

\* for i in range(1, end) of the debug loop: the passes at bars lo..hi.
RECURSIVE DebugRun(_, _, _, _)
DebugRun(s, lo, hi, st) ==
    IF lo > hi THEN st
    ELSE IF lo = hi THEN DebugPass(s, lo, st)
    ELSE LET mid  == (lo + hi) \div 2
             half == DebugRun(s, lo, mid, st)
         IN  IF half.i = mid - 1 THEN DebugRun(s, mid + 1, hi, half)
             ELSE half

\* _details(idxs): (bar offset, timestamp) of the indices inside the
\* window, ascending.
Details(s, idxs, window_start) ==
    LET inw == {i \in idxs : i >= window_start /\ i < Len(s) - 1}
        ord == SortedSeq(inw)
    IN  [k \in 1..Len(ord) |->
            <<ord[k] - window_start + 1, Times(s)[ord[k] + 1]>>]

\* signals_tf(df, from_ts, None).
signals_tf_debug(s, from_ts) ==
    IF Len(s) < SWING_UTAMA + 10
    THEN [buy_found |-> FALSE, sell_found |-> FALSE, buy_details |-> <<>>,
          sell_details |-> <<>>]
    ELSE LET r  == DebugRun(s, 2, Len(s) - 1, DebugStart)
             ws == WindowStart(s, from_ts)
             bd == Details(s, r.final_buy, ws)
             sd == Details(s, r.final_sell, ws)
         IN  [buy_found |-> Len(bd) > 0, sell_found |-> Len(sd) > 0,
              buy_details |-> bd, sell_details |-> sd]

\* Bars of the generated series.  On the short side (primary direction
\* down, close below tsm): at rest above the secondary level, pressure and
\* cross together, pressure alone, cross alone; and their mirror images on
\* the long side.
SigBars ==
    {SigBar(0 - 1, 0 - 1, 1, 50, TRUE), SigBar(0 - 1, 0 - 1, 0 - 1, 90, TRUE),
     SigBar(0 - 1, 0 - 1, 1, 90, TRUE), SigBar(0 - 1, 0 - 1, 0 - 1, 50, TRUE),
     SigBar(1, 1, 0 - 1, 50, TRUE), SigBar(1, 1, 1, 10, TRUE),
     SigBar(1, 1, 0 - 1, 10, TRUE), SigBar(1, 1, 1, 50, TRUE)}

\* A bar of a flat market: no breakout yet, the close on both trailing
\* levels, the oscillator in mid range, the volume averages equal.
FlatBar == SigBar(0, 0, 0, 50, FALSE)

\* Bars that open some series: before the first breakout (dir_main = 0,
\* the close below the trailing high) with pressure and cross or pressure
\* alone, and a short-side bar with pressure and cross that fails the
\* volume filter.
OpeningBars ==
    {SigBar(0, 0 - 1, 0 - 1, 90, TRUE), SigBar(0, 0 - 1, 1, 90, TRUE),
     SigBar(0 - 1, 0 - 1, 0 - 1, 90, FALSE)}

SigSeries ==
    UNION {[1..k -> SigBars] : k \in 0..MaxBars - 1}
    \cup {<<x>> \o b : x \in OpeningBars,
                       b \in UNION {[1..k -> SigBars] : k \in 0..MaxBars - 2}}

\* The candles of a call: lead flat bars (f_swing gives dir_main = 0 on
\* the first SWING_UTAMA bars), the generated bars, then trail bars that
\* hold the values of the last one.
Candles(bars, lead, trail) ==
    [q \in 1..(lead + Len(bars) + trail) |->
        IF q <= lead \/ bars = <<>> THEN FlatBar
        ELSE IF q <= lead + Len(bars) THEN bars[q - lead]
        ELSE bars[Len(bars)]]

\* How a call frames the generated bars: just enough candles (with three
\* generated bars) with the last generated bar closed, or with it live;
\* with an anchor at the second generated bar; and with so many trailing
\* candles that the lookback window starts at the second generated bar.
Frames ==
    {[lead |-> SWING_UTAMA + 6, trail |-> 1, from_ts |-> 0],
     [lead |-> SWING_UTAMA + 7, trail |-> 0, from_ts |-> 0],
     [lead |-> SWING_UTAMA + 6, trail |-> 1,
      from_ts |-> BarMs * (SWING_UTAMA + 8)],
     [lead |-> SWING_UTAMA, trail |-> LOOKBACK_SIG - 1, from_ts |-> 0]}

SignalJobs ==
    {[fn |-> "signals_tf", bars |-> b, frame |-> f, want_sell |-> w] :
        b \in SigSeries, f \in Frames, w \in BOOLEAN}

DebugJobs ==
    {[fn |-> "signals_tf_debug", bars |-> b, frame |-> f] :
        b \in SigSeries, f \in Frames}

\* The candles of the job.
JobCandles == Candles(job.bars, job.frame.lead, job.frame.trail)

\* A call of signals_tf in scan mode.
ApplySignalsTf ==
    /\ job.fn = "signals_tf"
    /\ result.calls = 0
    /\ result' = [calls |-> 1,
                  out |-> signals_tf_single(JobCandles, job.frame.from_ts,
                                            job.want_sell)]
    /\ UNCHANGED <<scanVars, job>>

\* A call of signals_tf in debug mode.
ApplySignalsTfDebug ==
    /\ job.fn = "signals_tf_debug"
    /\ result.calls = 0
    /\ result' = [calls |-> 1,
                  out |-> signals_tf_debug(JobCandles, job.frame.from_ts)]
    /\ UNCHANGED <<scanVars, job>>

\* The state before a detector call: one of the calls under study.
InitDetect ==
    /\ \/ job \in ValidateJobs
       \/ job \in ChochJobs
       \/ job \in SwingJobs
       \/ job \in BosJobs
       \/ job \in BbJobs
       \/ job \in SignalJobs
       \/ job \in DebugJobs
    /\ result = NoResult
    /\ now = StartClock
    /\ exMarkets = {}
    /\ data = <<>>
    /\ failBudget = 0
    /\ mode = "5m"
    /\ clicksLeft = 0
    /\ session = NewSession
    /\ rpc = "idle"
    /\ t0 = 0
    /\ symbols = {}
    /\ failsLeft = 0
    /\ sem = MAX_CONCURRENT
    /\ semq = <<>>
    /\ state = NoState
    /\ last_ui_update = 0
    /\ shown = NoState
    /\ wpc = <<>>
    /\ ctx = <<>>
    /\ fs = <<>>
    /\ trace = <<>>
    /\ lastFetch = <<>>
    /\ hist = NewHist

NextDetect ==
    \/ ApplyValidateChoch
    \/ ApplyFSwing
    \/ ApplyBosChoch
    \/ ApplyBbContinuation
    \/ ApplyChochStatus
    \/ ApplySignalsTf
    \/ ApplySignalsTfDebug

SpecDetect == InitDetect /\ [][NextDetect]_vars

\* The job is a call of fn that has returned.
Returned(fn) == job.fn = fn /\ result.calls >= 1

\* Of the events of the job: the positions before the signal (ts < signal)
\* and the positions at or after it.
BeforeSignal ==
    {i \in 1..Len(job.events) : job.events[i][1] < job.signal_ts_ms}
AfterSignal ==
    {i \in 1..Len(job.events) : job.events[i][1] >= job.signal_ts_ms}

\* The reversal in the signal's direction and the plain break against it.
Reversal == IF job.want_sell THEN "bear_choch" ELSE "bull_choch"
OppositeBreak == IF job.want_sell THEN "bull_bos" ELSE "bear_bos"

LastBeforeIs(type) ==
    BeforeSignal # {} /\ job.events[SetMax(BeforeSignal)][2] = type
FirstAfterIs(type) ==
    AfterSignal # {} /\ job.events[SetMin(AfterSignal)][2] = type

\* C13: for a time-sorted event list, validate_choch returns valid if the
\* last event before the signal or the first event at or after it is the
\* reversal of the signal's direction; else invalid if the first event at
\* or after the signal is the plain break of the opposite direction; else
\* wait, as for an empty list.  It returns one of the three values.
C13_ValidateChoch ==
    Returned("validate_choch") =>
        /\ result.out \in {"valid", "invalid", "wait"}
        /\ result.out =
              IF LastBeforeIs(Reversal) \/ FirstAfterIs(Reversal) THEN "valid"
              ELSE IF FirstAfterIs(OppositeBreak) THEN "invalid"
              ELSE "wait"
        /\ job.events = <<>> => result.out = "wait"

\* C13 witness: invalid was returned for a list whose first event at the
\* signal's own time is the opposite break, with an event before it.
C13_InvalidAtSignalTime ==
    /\ Returned("validate_choch")
    /\ result.out = "invalid"
    /\ BeforeSignal # {}
    /\ job.events[SetMin(AfterSignal)][1] = job.signal_ts_ms

\* C14: when the last event before the signal is the matching reversal,
\* validate_choch returns valid, also when the first event at or after the
\* signal is the opposite break.
C14_LastBeforeWins ==
    Returned("validate_choch") /\ LastBeforeIs(Reversal)
        => result.out = "valid"

\* C14 witness: events [bull_choch@100, bear_bos@500] and a long signal at
\* 300 gave valid.
C14_ScenarioD ==
    /\ Returned("validate_choch")
    /\ job.events = <<<<100, "bull_choch">>, <<500, "bear_bos">>>>
    /\ ~job.want_sell /\ job.signal_ts_ms = 300
    /\ result.out = "valid"

\* The side of an event type and whether it is a plain break.
Side(type) == IF type \in {"bull_bos", "bull_choch"} THEN "bull" ELSE "bear"
IsBreak(type) == type \in {"bull_bos", "bear_bos"}

\* Every event after an event of its own side is a break, every event
\* after an event of the other side a reversal, the first event a break.
Alternates(ev) ==
    /\ ev # <<>> => IsBreak(ev[1][2])
    /\ \A i \in 2..Len(ev) :
          IsBreak(ev[i][2]) <=> Side(ev[i][2]) = Side(ev[i - 1][2])

\* C15: in the events of calc_bos_choch, in the order of their emission
\* (which is the order of the returned list when candle times increase),
\* an event that follows an event of the same side is a break (BOS), an
\* event that follows an event of the opposite side is a reversal (ChoCh),
\* and the first event is a break.
C15_BreakOrReversal ==
    Returned("calc_bos_choch") =>
        Alternates(result.emitted) /\ Alternates(result.out)

\* C15 witness: a break of a high, a second break of a newer high, then
\* the break of a low, which is a reversal.
C15_BosBosChoch ==
    /\ Returned("calc_bos_choch")
    /\ job.bars = BosScenario /\ job.left = 1
    /\ result.emitted = <<<<400, "bull_bos">>, <<600, "bull_bos">>,
                          <<700, "bear_choch">>>>

\* The bars of a returned series at which the detector emitted.
EmissionBars == {p \in 1..Len(result.out) : result.out[p]}

\* C16: on the short-side scenario (extension at bar 10, break at bar 12,
\* retest at bar 15, close below the basis at bar 18; bar 18 is position
\* 19 here) the short detector emits exactly once, at bar 18, and right
\* after that bar none of its three flags is set.
C16_ScenarioBEndsIdle ==
    /\ Returned("calc_bb_continuation")
    /\ job.bars \in {ScenarioB, ScenarioBClosed}
    /\ job.want_sell
    => /\ EmissionBars = {19}
       /\ result.states[19] = BbIdle

\* Bar j of the job's series is a breakout bar of direction 1 (its close
\* is above the high of each of the `no` bars before it) or -1 (its close
\* is below the low of each of them); 0 when it is neither or when fewer
\* than `no` bars precede it.
BreakDir(j) ==
    IF j <= job.no THEN 0
    ELSE IF \A k \in (j - job.no)..(j - 1) : job.bars[j].c > job.bars[k].h
    THEN 1
    ELSE IF \A k \in (j - job.no)..(j - 1) : job.bars[j].c < job.bars[k].l
    THEN 0 - 1
    ELSE 0

\* The direction of the most recent breakout bar at or before bar i.
LastBreakDir(i) ==
    LET B == {j \in 1..i : BreakDir(j) # 0}
    IN  IF B = {} THEN 0 ELSE BreakDir(SetMax(B))

\* C17: the swing direction of f_swing at a bar is the direction of the
\* most recent breakout bar at or before it, 0 if there is none.  So it is
\* 0 on the first `lookback` bars, a breakout at the bar of index
\* `lookback` (position lookback + 1) sets it at that bar, it changes only
\* at breakout bars, and once it is not 0 it never is 0 again.
C17_SwingDirection ==
    Returned("f_swing") =>
        \A i \in 1..Len(job.bars) :
            /\ result.out[i] = LastBreakDir(i)
            /\ i <= job.no => result.out[i] = 0
            /\ i = job.no + 1 /\ BreakDir(i) # 0
                  => result.out[i] = BreakDir(i)
            /\ i > 1 /\ result.out[i] # result.out[i - 1]
                  => BreakDir(i) # 0
            /\ i > 1 /\ result.out[i - 1] # 0 => result.out[i] # 0

\* C17 witness: with lookback 1 the closes 1, 2, 2, 0 break upwards at the
\* bar of index 1, hold through a bar without breakout and break downwards
\* at the last bar.
C17_UpHeldThenDown ==
    /\ Returned("f_swing")
    /\ job.no = 1
    /\ job.bars = <<Bar(1, 1, 1), Bar(2, 2, 2), Bar(2, 2, 2), Bar(0, 0, 0)>>
    /\ result.out = <<0, 1, 1, 0 - 1>>

\* The first k candles of the job's series.
Upto(k) == SubSeq(job.bars, 1, k)

\* C18: no detector looks ahead.  What a detector reports for the bars up
\* to bar k of a series (the swing direction of f_swing, the emission flags
\* of calc_bb_continuation, the events of calc_bos_choch up to the time of
\* bar k) is what it reports when the candles after bar k are removed, and
\* so is the same for every series that agrees with it up to bar k.
C18_NoLookahead ==
    /\ Returned("f_swing") =>
          \A k \in 1..Len(job.bars) :
              SubSeq(result.out, 1, k) = f_swing(Upto(k), job.no)
    /\ Returned("calc_bb_continuation") =>
          \A k \in 1..Len(job.bars) :
              SubSeq(result.out, 1, k)
                  = calc_bb_continuation(Upto(k), job.want_sell, job.length)
    /\ Returned("calc_bos_choch") =>
          \A k \in 1..Len(job.bars) :
              SelectSeq(result.out, LAMBDA e : e[1] <= job.ts[k])
                  = calc_bos_choch(Upto(k), SubSeq(job.ts, 1, k),
                                   job.left, job.right)

Short(d, need) == d.n = 0 \/ d.n < need

\* Worker s ended without a record of its symbol and without raising.
Discarded(s, w, st) ==
    w[s] = "done" /\ \A l \in Lists : s \notin SymsIn(st[l])

\* The fetch worker s awaited at position pc has returned in this step,
\* and the series it returned.
Resumes(s, pc) == wpc[s] = pc /\ wpc'[s] # pc
Got(s) == lastFetch'[s].res

\* The two series of the Stage-3 gather when it completes: the one that
\* returns in this step and the one that waited in its slot.
GatherDs(s) ==
    IF lastFetch'[s].role = "sig" THEN Got(s) ELSE fs[s][1].res
GatherDc(s) ==
    IF lastFetch'[s].role = "choch" THEN Got(s) ELSE fs[s][2].res

\* The discards on the pivot (6 candles), the momentum (ADX_LEN * 2 at
\* Stage 1, 60 at Stage 2), the lower-medium (BB_LEN + 10) and the
\* execution series (80).
ShortDiscards(s) ==
    /\ Resumes(s, "s1_pivot") /\ Short(Got(s), 6)
          => Discarded(s, wpc', state')
    /\ Resumes(s, "s1_tdi") /\ Short(Got(s), 60)
          => /\ Discarded(s, wpc', state')
             /\ Short(Got(s), ADX_LEN * 2) => Last(trace'[s]) = "s1_dis"
    /\ Resumes(s, "s3_mid") /\ Short(Got(s), BB_LEN + 10)
          => Discarded(s, wpc', state')
    /\ Resumes(s, "s3_gather") /\ Short(GatherDs(s), 80)
          => Discarded(s, wpc', state')

\* C20 as stated: whichever series a stage fetched (pivot, momentum,
\* lower-medium, execution or structural), if it is empty or shorter than
\* the stage requires, the candidate is discarded and nothing is raised.
C20_ShortSeriesDiscarded ==
    [][\A s \in symbols :
          /\ ShortDiscards(s)
          /\ Resumes(s, "s3_gather") /\ Short(GatherDc(s), BOS_LR * 2 + 5)
                => Discarded(s, wpc', state')]_vars

\* C20 amended: an empty or too short pivot, momentum, lower-medium or
\* execution series discards the candidate without an error.  An empty or
\* too short structural series does not: the candidate that has a final
\* signal is accepted with structure status "wait", again without error.
C20_ShortSeriesHandled ==
    [][\A s \in symbols :
          /\ ShortDiscards(s)
          /\ Resumes(s, "s3_gather") /\ Short(GatherDc(s), BOS_LR * 2 + 5)
                => /\ wpc'[s] = "done"
                   /\ IF Short(GatherDs(s), 80)
                         \/ signals_tf(GatherDs(s), ctx[s].pivot_ts,
                                       ctx[s].want_sell) = <<>>
                      THEN Discarded(s, wpc', state')
                      ELSE \E l \in {"buy_wait", "sell_wait"} :
                              /\ s \in SymsIn(state'[l])
                              /\ Last(state'[l])[3] = "wait"]_vars

\* C20 witness: the exchange served 79 execution candles and a full
\* structural series; both fetches returned and the worker ended with a
\* Stage-3 discard and no record.
C20_ShortExecutionSeries ==
    \E s \in symbols :
        /\ data[s].sig.n = 79
        /\ lastFetch[s].ok
        /\ lastFetch[s].role \in {"sig", "choch"}
        /\ Discarded(s, wpc, state)
        /\ Last(trace[s]) = "s3_dis"

\* The Stage-3 fetches worker s has issued so far.
Stage3Fetches(s) ==
    SelectSeq(trace[s],
              LAMBDA e : e \in {"fetch_mid", "fetch_sig", "fetch_choch"})

\* The lower-medium series d holds a Bollinger-continuation emission of the
\* direction of candidate s on a closed bar at or after the anchor.
EmittedSinceAnchor(s, d) ==
    /\ d.n >= BB_LEN + 10
    /\ \E t \in (IF ctx[s].want_sell THEN d.bbSell ELSE d.bbBuy) :
          t >= ctx[s].pivot_ts

\* C21: stage3_worker issues the execution and the structural fetch only
\* for a candidate whose lower-medium series holds an emission of its
\* direction at or after the anchor; a candidate whose lower-medium fetch
\* returned without one ends with exactly one Stage-3 fetch.
C21_BandCheckGatesFetches ==
    \A s \in symbols :
        /\ {"fetch_sig", "fetch_choch"} \cap Events(s) # {}
              => EmittedSinceAnchor(s, data[s].mid)
        /\ lastFetch[s].role = "mid"
           /\ ~EmittedSinceAnchor(s, lastFetch[s].res)
              => /\ wpc[s] = "done"
                 /\ Stage3Fetches(s) = <<"fetch_mid">>
                 /\ Last(trace[s]) = "s3_dis"

\* C21 witness: the only emission of the lower-medium series lies before
\* the anchor; the worker ended after the one fetch.
C21_EmissionBeforeAnchor ==
    \E s \in symbols :
        /\ lastFetch[s].role = "mid" /\ lastFetch[s].ok
        /\ lastFetch[s].res.n >= BB_LEN + 10
        /\ lastFetch[s].res.bbSell # {}
        /\ ~EmittedSinceAnchor(s, lastFetch[s].res)
        /\ wpc[s] = "done"
        /\ Stage3Fetches(s) = <<"fetch_mid">>

\* The verdicts of validate_choch on every signal timestamp of the job.
AllVerdicts ==
    {validate_choch(job.events, job.sig_ts_list[i], job.want_sell) :
        i \in 1..Len(job.sig_ts_list)}

\* C22: with sufficient structural data the Stage-4 status is the verdict
\* of best rank (valid > wait > invalid) over all signal timestamps, so the
\* newest-to-oldest loop that stops at the first valid loses nothing; the
\* candidate is discarded exactly when every timestamp is invalid.
C22_BestRankOverAll ==
    Returned("choch_status") =>
        /\ result.out \in AllVerdicts
        /\ \A v \in AllVerdicts : Rank(v) <= Rank(result.out)
        /\ ~result.accepted <=> AllVerdicts = {"invalid"}

\* C22 witness: the newest timestamp is invalid, an older one valid; the
\* status is valid and the candidate is kept.
C22_OlderSignalValid ==
    /\ Returned("choch_status")
    /\ Len(job.sig_ts_list) >= 2
    /\ validate_choch(job.events, Last(job.sig_ts_list), job.want_sell)
          = "invalid"
    /\ result.out = "valid"
    /\ result.accepted

\* The lists of a direction and of a rank.
ListsOfSide(sell) ==
    IF sell THEN {"sell_valid", "sell_wait"} ELSE {"buy_valid", "buy_wait"}
ListsOfRank(rank) ==
    IF rank = "valid" THEN {"buy_valid", "sell_valid"}
    ELSE IF rank = "wait" THEN {"buy_wait", "sell_wait"}
    ELSE {}

\* In the lists of st every record sits in the list of the direction of
\* its symbol's pivot pattern and of its own rank, and no symbol is
\* recorded twice.
WellSorted(st) ==
    /\ \A l \in Lists : \A i \in 1..Len(st[l]) :
          LET s == st[l][i][1] IN
          /\ st[l][i][3] \in {"valid", "wait"}
          /\ l \in ListsOfRank(st[l][i][3])
          /\ l \in ListsOfSide(PivotPattern(data[s].pivot.piv) = "sell")
    /\ \A s \in symbols :
          Cardinality({<<l, i>> \in Lists \X (1..NumSymbols) :
                          i <= Len(st[l]) /\ st[l][i][1] = s}) <= 1
    /\ \A l \in Lists : Len(st[l]) <= NumSymbols

\* C23: in every state of a scan each accepted record sits in exactly the
\* list of its direction and rank, no record of status invalid is in any
\* list, and no symbol is in the four lists more than once.  The same goes
\* for the state shown to the user.
C23_RecordsWellSorted == WellSorted(state) /\ WellSorted(shown)

\* C23 witness: a buy candidate whose structure status is wait was
\* accepted: it is the one record, in buy_wait.
C23_BuyWaitRecorded ==
    \E s \in symbols :
        /\ wpc[s] = "done"
        /\ Len(state["buy_wait"]) = 1
        /\ state["buy_wait"][1][1] = s
        /\ state["buy_wait"][1][3] = "wait"
        /\ PivotPattern(data[s].pivot.piv) = "buy"
        /\ \A l \in Lists \ {"buy_wait"} : state[l] = <<>>

\* The bars of the job's series at which an event of the given side was
\* emitted.
EventBars(side) ==
    {p \in 1..Len(job.bars) :
        \E i \in 1..Len(result.emitted) :
            /\ result.emitted[i][1] = job.ts[p]
            /\ Side(result.emitted[i][2]) = side}

\* At bar r a local high (low) is confirmed: the bar `right` bars back has
\* `left` bars before it and is strictly above (below) each of them and
\* each bar after it up to r.
ConfirmsHigh(r) ==
    LET m == r - job.right IN
    /\ m - 1 >= job.left
    /\ \A k \in ((m - job.left)..r) \ {m} : job.bars[m].h > job.bars[k].h
ConfirmsLow(r) ==
    LET m == r - job.right IN
    /\ m - 1 >= job.left
    /\ \A k \in ((m - job.left)..r) \ {m} : job.bars[m].l < job.bars[k].l

\* Between two event bars of a side lies a bar that confirms a new
\* extreme, every event bar has a confirmation at or before it, and there
\* are no more events than confirmations.
OncePerExtreme(evBars, Confirms(_), count) ==
    LET regs == {r \in 1..Len(job.bars) : Confirms(r)} IN
    /\ \A p, q \in evBars :
          p < q => \E r \in regs : p < r /\ r <= q
    /\ \A p \in evBars : \E r \in regs : r <= p
    /\ count <= Cardinality(regs)

\* C24: in calc_bos_choch, after a bullish event no further bullish event
\* is emitted until a new local high has been confirmed at a later bar, and
\* after a bearish event no further bearish event until a new local low has
\* been confirmed: each confirmed extreme produces at most one event.
C24_NoRefire ==
    Returned("calc_bos_choch") =>
        /\ OncePerExtreme(EventBars("bull"), ConfirmsHigh,
              Len(SelectSeq(result.emitted, LAMBDA e : Side(e[2]) = "bull")))
        /\ OncePerExtreme(EventBars("bear"), ConfirmsLow,
              Len(SelectSeq(result.emitted, LAMBDA e : Side(e[2]) = "bear")))

\* C24 witness: the high of bar 2 is broken at bar 4, bar 5 closes above
\* it again without an event, the high of bar 5 is confirmed at bar 6 and
\* broken at bar 7.
C24_HeldAboveBrokenHigh ==
    /\ Returned("calc_bos_choch")
    /\ job.bars = BosHeldScenario /\ job.left = 1
    /\ result.emitted = <<<<400, "bull_bos">>, <<700, "bull_bos">>>>
    /\ ConfirmsHigh(6) /\ ~ConfirmsHigh(5)

\* How many events of the returned list are of the given side and carry
\* the time of bar p.
EventsAt(p, side) ==
    Cardinality({i \in 1..Len(result.out) :
                    /\ result.out[i][1] = job.ts[p]
                    /\ Side(result.out[i][2]) = side})

\* C25: for candle times that increase strictly, the list calc_bos_choch
\* returns is sorted by non-decreasing time, holds at most one bullish and
\* at most one bearish event per bar, and is in the order of emission.
C25_EventsTimeSorted ==
    Returned("calc_bos_choch")
    /\ (\A p \in 2..Len(job.ts) : job.ts[p - 1] < job.ts[p])
    => /\ \A i, j \in 1..Len(result.out) :
             i < j => result.out[i][1] <= result.out[j][1]
       /\ \A p \in 1..Len(job.bars) :
             EventsAt(p, "bull") <= 1 /\ EventsAt(p, "bear") <= 1
       /\ result.out = result.emitted

\* C25 witness: three events at three bars, returned as they were emitted.
C25_ThreeEventsInOrder ==
    /\ Returned("calc_bos_choch")
    /\ job.bars = BosScenario /\ job.left = 1
    /\ Len(result.out) = 3
    /\ result.out[1][1] < result.out[2][1]
    /\ result.out[2][1] < result.out[3][1]
    /\ result.out = result.emitted

\* The job's bars from the first bar with bands run through one of the two
\* loops, whatever the length of the series: the flags after bar p and the
\* emission flags up to it.
RECURSIVE PathRun(_, _)
PathRun(loop, p) ==
    IF p = 0 THEN [sig |-> <<>>, st |-> BbIdle]
    ELSE LET r    == PathRun(loop, p - 1)
             step == IF p <= job.length - 1
                     THEN [st |-> r.st, sig |-> FALSE]
                     ELSE IF loop
                     THEN BbLoopStep(job.bars[p], job.want_sell, r.st)
                     ELSE BbMainStep(job.bars[p], job.want_sell, r.st)
         IN  [sig |-> Append(r.sig, step.sig), st |-> step.st]

\* C26: on the same bars, band values and direction the fallback loop
\* (_calc_bb_loop) and the general path of calc_bb_continuation emit at
\* exactly the same bars.
C26_FallbackSameAsGeneral ==
    Returned("calc_bb_continuation") =>
        PathRun(TRUE, Len(job.bars)).sig = PathRun(FALSE, Len(job.bars)).sig

\* Bar p of the job's series is an extension bar of the job's direction:
\* for short its high is below the lower band, for long its low is above
\* the upper band.
ExtensionBar(p) ==
    IF job.want_sell THEN job.bars[p].h < job.bars[p].lower
    ELSE job.bars[p].l > job.bars[p].upper

\* C27: after every emission the Bollinger-continuation detector is Idle
\* again, so a second emission needs a new extension bar at or after the
\* first emission; break, retest and basis-cross alone do not emit again.
C27_IdleAfterEmission ==
    Returned("calc_bb_continuation") =>
        /\ \A e \in EmissionBars : result.states[e] = BbIdle
        /\ \A e1, e2 \in EmissionBars :
              e1 < e2 => \E a \in e1..e2 : ExtensionBar(a)

\* Bars of the short side: the close is below the lower band (break), the
\* high is at or above it (retest), the low is above the upper band
\* (reset).
BreakBar(p) == job.bars[p].c < job.bars[p].lower
RetestBar(p) == job.bars[p].h >= job.bars[p].lower
ResetBar(p) == job.bars[p].l > job.bars[p].upper

\* C28: every emission of the short side at a bar e comes after an
\* extension bar a, a break bar b and a retest bar r, none of them before
\* the last reset, with a <= b < r < e: the retest is on a later bar than
\* the break and the emission on a later bar than the retest.
C28_BreakRetestCrossInOrder ==
    Returned("calc_bb_continuation") /\ job.want_sell =>
        \A e \in EmissionBars :
            \E a, b, r \in 1..e :
                /\ a <= b /\ b < r /\ r < e
                /\ ExtensionBar(a) /\ BreakBar(b) /\ RetestBar(r)
                /\ \A k \in a..e : ~ResetBar(k)

\* Bar k has bands (the first length - 1 bars have none) and its low is
\* above the upper band.
ResetsAt(k) == k >= job.length /\ ResetBar(k)

\* C29: in the short-side detector a bar whose low is above the upper band
\* leaves the detector Idle, whatever its flags were: the bar does not
\* emit, and an emission after it needs an extension bar, a break and a
\* retest that all come after it.
C29_ResetToIdle ==
    Returned("calc_bb_continuation") /\ job.want_sell =>
        \A k \in 1..Len(job.bars) :
            ResetsAt(k) =>
                /\ result.states[k] = BbIdle
                /\ k \notin EmissionBars
                /\ \A e \in EmissionBars :
                      k < e =>
                         \E a, b, r \in (k + 1)..e :
                             /\ a <= b /\ b <= r
                             /\ ExtensionBar(a) /\ BreakBar(b) /\ RetestBar(r)

\* C29 witness: the detector was armed when a bar above the upper band
\* came; the close below the basis on the next bar emits nothing.
C29_ArmedThenReset ==
    /\ Returned("calc_bb_continuation") /\ job.want_sell
    /\ job.length = 1
    /\ job.bars = <<BbBar(1, 1, 1), BbBar(3, 5, 5), BbBar(7, 7, 7),
                    BbBar(3, 3, 5)>>
    /\ result.states[2].ar
    /\ result.states[3] = BbIdle
    /\ EmissionBars = {}

\* The bar seen from the other side: prices and bands negated, high and
\* low exchanged, upper and lower band exchanged.
Mirror(b) ==
    [h |-> 0 - b.l, l |-> 0 - b.h, c |-> 0 - b.c,
     lower |-> 0 - b.upper, basis |-> 0 - b.basis, upper |-> 0 - b.lower]

MirrorBars == [p \in 1..Len(job.bars) |-> Mirror(job.bars[p])]

\* The emission flags of one path (the fallback loop or the general one)
\* over bars 1..p of the given series.
RECURSIVE PathRunOn(_, _, _, _)
PathRunOn(bars, want_sell, loop, p) ==
    IF p = 0 THEN [sig |-> <<>>, st |-> BbIdle]
    ELSE LET r    == PathRunOn(bars, want_sell, loop, p - 1)
             step == IF p <= job.length - 1
                     THEN [st |-> r.st, sig |-> FALSE]
                     ELSE IF loop
                     THEN BbLoopStep(bars[p], want_sell, r.st)
                     ELSE BbMainStep(bars[p], want_sell, r.st)
         IN  [sig |-> Append(r.sig, step.sig), st |-> step.st]

\* C30: the long side is the mirror of the short side: the detector of one
\* side on a series emits at the same bars as the detector of the other
\* side on the mirrored series, in the call as made and in each of the
\* two paths (general and fallback).
C30_LongMirrorsShort ==
    Returned("calc_bb_continuation") =>
        /\ result.out =
              calc_bb_continuation(MirrorBars, ~job.want_sell, job.length)
        /\ \A loop \in BOOLEAN :
              PathRunOn(job.bars, job.want_sell, loop, Len(job.bars)).sig =
              PathRunOn(MirrorBars, ~job.want_sell, loop, Len(job.bars)).sig

\* C30 witness: a long-side call of the general path that emits at the
\* third bar, where a second close above the upper band came while armed;
\* the short side emits there on the mirrored bars.
C30_LongEmission ==
    /\ Returned("calc_bb_continuation") /\ ~job.want_sell
    /\ job.length = 1
    /\ job.bars = <<BbBar(7, 7, 7), BbBar(3, 3, 5), BbBar(7, 7, 7)>>
    /\ EmissionBars = {3}
    /\ calc_bb_continuation(MirrorBars, TRUE, 1) = <<FALSE, FALSE, TRUE>>

(***************************************************************************)
(* Claims about signals_tf.                                                *)
(***************************************************************************)
\* The number of candles of the call and the timestamp of bar q.
NumCandles == job.frame.lead + Len(job.bars) + job.frame.trail
TimeOf(q) == BarMs * q

\* The bars whose timestamps the scan-mode call returned.
SignalBars ==
    {q \in 1..NumCandles :
        \E k \in 1..Len(result.out.sig_ts_list) :
            result.out.sig_ts_list[k] = TimeOf(q)}

\* A pressure event of the call's direction at bar p.
PressureBar(p) == PressureAt(JobCandles, p, job.want_sell)

\* C31: every signal of a single-direction call has a pressure event of
\* its direction at or before its bar and after every earlier signal of
\* the call: between two consecutive signals at i1 < i2 there is a
\* pressure event at a bar p with i1 < p <= i2, and no pressure event
\* yields two signals.
C31_OnePressureOneSignal ==
    Returned("signals_tf") =>
        \A e \in SignalBars :
            \E p \in 2..e :
                /\ PressureBar(p)
                /\ \A e1 \in SignalBars : e1 < e => e1 < p

\* C31 witness: a short-side call that returns two signals, each on the
\* bar of its own pressure event, with a bar at rest between them.
C31_TwoSignals ==
    /\ Returned("signals_tf") /\ job.want_sell
    /\ job.frame.trail = 1 /\ job.frame.from_ts = 0
    /\ Len(job.bars) = 3
    /\ SignalBars = {SWING_UTAMA + 7, SWING_UTAMA + 9}
    /\ PressureBar(SWING_UTAMA + 7) /\ PressureBar(SWING_UTAMA + 9)

\* The bars the loop of the call passed (bar 1 and the live bar are not).
PassedBars == 2..Len(result.out.ptrs)

\* From bar q on the pointer is unset or names bar q or a later one.
FreshFrom(q) ==
    \A k \in q..Len(result.out.ptrs) :
        result.out.ptrs[k] = 0 - 1 \/ result.out.ptrs[k] >= q - 1

\* The primary direction at bar q differs from the one at bar q - 1.
FlipBar(q) == JobCandles[q].dir_main # JobCandles[q - 1].dir_main

\* The primary direction becomes the call's direction at bar q.
FlipInBar(q) ==
    LET d == IF job.want_sell THEN 0 - 1 ELSE 1
    IN  JobCandles[q].dir_main = d /\ JobCandles[q - 1].dir_main # d

\* C32 as stated: at every bar where the primary direction differs from
\* the previous bar's, whichever way, the pointer is cleared: from that bar
\* on it is unset unless a pressure event occurs on that bar or later.
C32_ClearedOnEveryFlip ==
    Returned("signals_tf") => \A q \in PassedBars : FlipBar(q) => FreshFrom(q)

\* C32 amended: the pointer is cleared at every bar where the primary
\* direction becomes the call's direction; at a bar where it turns away
\* from the call's direction the pointer stays as it was, unless the bar
\* has a pressure event or a cross that consumes the pointer.
C32_ClearedOnFlipIntoDirection ==
    Returned("signals_tf") =>
        \A q \in PassedBars :
            /\ FlipInBar(q) => FreshFrom(q)
            /\ /\ FlipBar(q) /\ ~FlipInBar(q) /\ ~PressureBar(q)
               /\ ~CrossOk(JobCandles, q, job.want_sell)
               => result.out.ptrs[q] = result.out.ptrs[q - 1]

\* C32 witness: a pressure event before the first breakout set the
\* pointer, the next bar turns the primary direction down and leaves the
\* short-side pointer unset.
C32_PointerClearedByFlip ==
    /\ Returned("signals_tf") /\ job.want_sell
    /\ \E q \in PassedBars :
          /\ FlipInBar(q) /\ ~PressureBar(q)
          /\ result.out.ptrs[q - 1] >= 0
          /\ result.out.ptrs[q] = 0 - 1
          /\ ~CrossOk(JobCandles, q, TRUE)

\* The primary direction at bar k is the call's direction.
WithTrend(k) ==
    JobCandles[k].dir_main = (IF job.want_sell THEN 0 - 1 ELSE 1)

\* C33: every signal at bar e has a pressure event of its direction at a
\* bar p <= e with the primary direction equal to the call's direction on
\* every bar from p to e and no other signal at a bar in [p, e); so a
\* pressure event from before the latest flip into the call's direction
\* produces no signal.
C33_PressureSinceFlip ==
    Returned("signals_tf") =>
        \A e \in SignalBars :
            \E p \in 2..e :
                /\ PressureBar(p)
                /\ \A k \in p..e : WithTrend(k)
                /\ \A e1 \in SignalBars : ~(p <= e1 /\ e1 < e)

\* C33 witness: a pressure event before the first breakout, then the
\* primary direction turns down, then a second pressure event whose bar
\* carries the signal.
C33_StalePressureDropped ==
    /\ Returned("signals_tf") /\ job.want_sell
    /\ \E e \in SignalBars :
          \E p0 \in 2..e - 2 :
              /\ PressureBar(p0) /\ ~WithTrend(p0)
              /\ WithTrend(p0 + 1)
              /\ PressureBar(e)
              /\ SignalBars = {e}

\* Bar q is inside the window of the call: at or after the anchor when one
\* is given, else among the last LOOKBACK_SIG closed bars.
InWindow(q) ==
    IF job.frame.from_ts > 0
    THEN TimeOf(q) >= job.frame.from_ts
    ELSE q - 1 >= NumCandles - 1 - LOOKBACK_SIG

\* The pointer is set when the loop tests bar q for a signal.
Pending(q) ==
    PressureBar(q) \/ (result.out.ptrs[q - 1] >= 0 /\ ~FlipInBar(q))

\* C34: a single-direction call returns the timestamps of all bars of the
\* window that meet the emission condition: strictly ascending, of closed
\* bars only, inside the window, and found is true exactly when the list
\* is not empty.
C34_AllSignalsInWindow ==
    Returned("signals_tf") =>
        LET out == result.out.sig_ts_list
        IN  /\ \A k \in 1..Len(out) - 1 : out[k] < out[k + 1]
            /\ \A k \in 1..Len(out) :
                  \E q \in 2..NumCandles - 1 :
                      out[k] = TimeOf(q) /\ InWindow(q)
            /\ result.out.found <=> out # <<>>
            /\ \A q \in PassedBars :
                  /\ InWindow(q) /\ Pending(q) /\ WithTrend(q)
                  /\ CrossOk(JobCandles, q, job.want_sell)
                  => q \in SignalBars

\* C34 witness: a call without anchor returns two signals of the window,
\* the later one on the last closed bar, and found is true.
C34_TwoSignalsReturned ==
    /\ Returned("signals_tf")
    /\ job.frame.from_ts = 0
    /\ result.out.found
    /\ Len(result.out.sig_ts_list) = 2
    /\ result.out.sig_ts_list[2] = TimeOf(NumCandles - 1)

\* The timestamps of a details list of the debug call.
DetailTimes(details) == [k \in 1..Len(details) |-> details[k][2]]

\* C35: the debug call reports, for each direction, the timestamps the
\* single-direction call returns on the same candles and anchor, and the
\* same found flag.
C35_DebugAgreesWithScan ==
    Returned("signals_tf_debug") =>
        LET sell == signals_tf_single(JobCandles, job.frame.from_ts, TRUE)
            buy  == signals_tf_single(JobCandles, job.frame.from_ts, FALSE)
        IN  /\ DetailTimes(result.out.sell_details) = sell.sig_ts_list
            /\ DetailTimes(result.out.buy_details) = buy.sig_ts_list
            /\ result.out.sell_found = sell.found
            /\ result.out.buy_found = buy.found

\* C35 witness: before the first breakout a bar has short-side pressure
\* and cross, where only the single-direction loop clears its pointer;
\* after the direction turned down the debug call reports a short signal.
C35_ConsumedBeforeBreakout ==
    /\ Returned("signals_tf_debug")
    /\ result.out.sell_found
    /\ \E q \in 2..NumCandles - 1 :
          /\ sell_pressure(JobCandles, q)
          /\ CrossOk(JobCandles, q, TRUE)
          /\ JobCandles[q].dir_main = 0
          /\ result.out.sell_details[1][2] > TimeOf(q)

(***************************************************************************)
(* Claims about the retry loop and the admission gate.                     *)
(***************************************************************************)
\* Fetch k of worker s exists before and after the step.
FetchLives(s, k) == s \in DOMAIN fs /\ s \in DOMAIN fs' /\ k \in Slots

\* C36: after its k-th failed attempt, k < RETRY_ATTEMPTS, a fetch sleeps
\* RETRY_BASE_DELAY * 2^(k-1) (500 ms, then 1000 ms); it makes the next
\* attempt only when that time has passed; after the last failed attempt
\* it returns "no data" at once, without a sleep.
C36_BackoffDoubles ==
    [][\A s \in DOMAIN fs, k \in Slots :
          FetchLives(s, k) =>
            /\ fs[s][k].st = "inflight" /\ fs'[s][k].st = "sleeping"
                  => /\ fs[s][k].calls \in 1..RETRY_ATTEMPTS - 1
                     /\ fs'[s][k].wake =
                           now + RETRY_BASE_DELAY * 2 ^ (fs[s][k].calls - 1)
            /\ fs[s][k].st = "sleeping" /\ fs'[s][k] # fs[s][k]
                  => /\ now >= fs[s][k].wake
                     /\ fs'[s][k].st = "inflight"
                     /\ fs'[s][k].calls = fs[s][k].calls + 1
            /\ ( /\ fs[s][k].st = "inflight"
                 /\ fs[s][k].calls = RETRY_ATTEMPTS
                 /\ failsLeft' < failsLeft /\ fs'[s][k] # fs[s][k] )
                  => /\ fs'[s][k].st \in {"done", "none"}
                     /\ now' = now
                     /\ lastFetch'[s].calls = RETRY_ATTEMPTS
                     /\ ~lastFetch'[s].ok
                     /\ lastFetch'[s].res = NoData]_vars

\* C36 witness: a fetch whose second attempt has just failed sleeps for
\* twice the base delay.
C36_SecondWaitDoubled ==
    \E s \in DOMAIN fs, k \in Slots :
        /\ fs[s][k].st = "sleeping"
        /\ fs[s][k].calls = 2
        /\ fs[s][k].wake = now + 2 * RETRY_BASE_DELAY


(***************************************************************************)
(* Claims about debug_single.                                              *)
(***************************************************************************)
\* The scan has finished with symbol s and every fetch of its worker
\* returned the candles the exchange serves.
ScannedOnServedData(s) ==
    /\ s \in symbols
    /\ wpc[s] \in {"done", "raised"}
    /\ ~hist.allRaised

\* The scan accepted s into the list of this direction and status.
ScanAccepted(s, direction, status) ==
    \E l \in Lists : s \in SymsIn(state[l]) /\ l = ListOf(direction, status)

\* C37: on the same candle data debug_single replays the scan: it reports
\* a pass on every stage check, with a final status of valid or wait,
\* exactly when the scan's stage workers accept the symbol with the same
\* direction and status.
C37_DebugReplaysScan ==
    \A s \in exMarkets :
        ScannedOnServedData(s) =>
            \A pivot_ts \in DebugPivotTs(data[s].pivot) :
                LET r == debug_single(data[s], pivot_ts) IN
                /\ r.pass =>
                      ScanAccepted(s, r.direction, r.status)
                /\ (\E l \in Lists : s \in SymsIn(state[l])) =>
                      /\ r.pass
                      /\ ScanAccepted(s, r.direction, r.status)


(***************************************************************************)
(* Claims about the progress counters of run_scan.                         *)
(***************************************************************************)
\* The accepted records of a scan state, over its four lists.
Accepted(st) ==
    Len(st.buy_valid) + Len(st.buy_wait)
    + Len(st.sell_valid) + Len(st.sell_wait)

\* The funnel: each stage counts no more than the stage before it.
Funnel(st) ==
    /\ 0 <= Accepted(st)
    /\ Accepted(st) <= st.s3_in
    /\ st.s3_in <= st.s2_in
    /\ st.s2_in <= st.s1_done
    /\ st.s1_done <= st.total

\* No counter and no list of st is ahead of the one of st2.
NotAhead(st, st2) ==
    /\ st.s1_done <= st2.s1_done
    /\ st.s2_in <= st2.s2_in
    /\ st.s3_in <= st2.s3_in
    /\ \A l \in Lists : Len(st[l]) <= Len(st2[l])

\* C38: in every state the progress callback observes and in the state
\* run_scan returns, accepted records <= s3_in <= s2_in <= s1_done <= total;
\* within a run no counter and no list length ever decreases, and a run
\* starts from a fresh state whose counters are 0 and whose lists are empty.
C38_FunnelCountersMonotone ==
    [][/\ (rpc' = "gather" /\ shown' # NoState) => Funnel(shown')
       /\ (rpc' = "gather") => Funnel(state')
       /\ (rpc = "gather" /\ rpc' = "idle" /\ AllWorkersDone) =>
             /\ Funnel(state') /\ shown' = state'
             /\ session'.scan_state = state'
       /\ (rpc = "gather") =>
             /\ NotAhead(state, state')
             /\ NotAhead(shown, shown')
             /\ NotAhead(shown', state')
       /\ (rpc # "gather" /\ rpc' = "gather") =>
             /\ state' = NewState(Cardinality(symbols'))
             /\ Accepted(state') = 0 /\ state'.s1_done = 0
             /\ state'.s2_in = 0 /\ state'.s3_in = 0
             /\ shown' = NoState]_vars

\* The callback has shown a state with a record in it while another
\* symbol was still to be counted.
C38_RecordShownMidScan ==
    /\ rpc = "gather"
    /\ shown # NoState
    /\ Accepted(shown) = 1
    /\ shown.s3_in = 1
    /\ shown.s1_done < shown.total


\* The fetches that are past `async with sem` and have not returned: a
\* call is out, or the backoff sleep between two calls runs.
InsideGate ==
    {p \in exMarkets \X Slots : fs[p[1]][p[2]].st \in {"inflight", "sleeping"}}

\* The fetches queued at the gate.
AtGate == {p \in exMarkets \X Slots : fs[p[1]][p[2]].st = "waiting"}

\* C40: the admission permits are conserved.  Each fetch holds exactly one
\* permit from before its first attempt until it returns, backoff waits
\* included, and gives it back on every exit path; a worker holds no permit
\* while it evaluates a stage; when run_scan completes all MAX_CONCURRENT
\* permits are free.
C40_PermitsConserved ==
    [][/\ sem' >= 0
       /\ sem' + Cardinality(InsideGate') = MAX_CONCURRENT
       /\ \A p \in AtGate' : fs'[p[1]][p[2]].calls = 0
       /\ \A s \in symbols, k \in Slots :
             \* a failed attempt that is retried keeps the permit
             /\ (fs[s][k].st = "inflight" /\ fs'[s][k].st = "sleeping")
                   => sem' = sem /\ semq' = semq
             /\ (fs[s][k].st = "sleeping" /\ fs'[s][k].st = "inflight")
                   => sem' = sem /\ semq' = semq
             \* the return, with data or without, passes the permit on
             /\ (fs[s][k].st = "inflight"
                 /\ fs'[s][k].st \notin {"inflight", "sleeping"})
                   => IF semq = <<>>
                      THEN sem' = sem + 1
                           \/ (sem' = sem /\ Cardinality(InsideGate') =
                                             Cardinality(InsideGate))
                      ELSE sem' = sem
             \* the stages of a worker run with none of its fetches inside
             /\ (wpc'[s] # wpc[s] /\ rpc = "gather")
                   => Cardinality({j \in Slots : <<s, j>> \in InsideGate'})
                         <= (IF wpc'[s] \in {"s1_tdi", "s3_mid"} THEN 1 ELSE 0)
       /\ hist'.lastRun = "ok" => sem' = MAX_CONCURRENT /\ InsideGate' = {}]_vars

\* A fetch sleeps between two attempts with its permit while the gate has
\* no permit left and a fetch of another worker is queued.
C40_SleepsWithPermit ==
    \E s \in symbols, k \in Slots :
        /\ fs[s][k].st = "sleeping"
        /\ sem = 0
        /\ semq # <<>>
        /\ Head(semq)[1] # s


\* A step of the gather: an exchange call returns or raises, a backoff
\* sleep ends, a gathered fetch starts, time passes for a sleeping fetch.
GatherStep ==
    \/ \E s \in symbols, k \in Slots :
          CallReturns(s, k) \/ CallRaises(s, k) \/ WakeUp(s, k) \/ TaskStart(s, k)
    \/ Tick

\* run_scan is over: it returned, or the gather re-raised.
RunScanOver ==
    /\ rpc = "idle"
    /\ symbols # {}
    /\ hist.lastRun \in {"ok", "failed"}

\* C39: with an exchange that answers every call, run_scan runs to its
\* end: the gate never leaves the gather stuck while a worker has not
\* ended (whatever the number of permits, and also while a Stage-3 worker
\* waits for its two fetches with every permit held by others), and when
\* run_scan is over every worker has reached discarded or accepted.
C39_EveryWorkerEnds ==
    /\ (rpc = "gather" /\ ~AllWorkersDone
        /\ \A s \in symbols : wpc[s] # "raised") => ENABLED GatherStep
    /\ RunScanOver => AllWorkersDone

====
